---------------------------- MODULE Spec2Model ----------------------------
(***************************************************************************)
(* A model of the wikiparse library (Kiruse/AWTeP.py):                     *)
(*   - the source cursor and its speculative scopes (source_reader.py),    *)
(*   - the template cache of the MediaWiki adapter (mediawiki.py),         *)
(*   - the transcluder and the inclusion filter (transformer/),            *)
(*   - the recursive-descent parser (parser.py).                           *)
(* Strings are sequences of one-character strings.  Python objects that    *)
(* are mutated in place (cursors, AST nodes) are records that every        *)
(* operator returns next to its value; an operator that may raise returns  *)
(* the exception's name in the field exc ("none" when it returns).         *)
(***************************************************************************)
EXTENDS Integers, Sequences, FiniteSets, TLC

VARIABLES
  rd_stack,   \* the open cursors: rd_stack[1] is the SourceReader, the rest are the open SourceConsumers
  rd_last,    \* what the step just taken did, when it left a speculative scope (__exit__)
  templates,  \* MediaWiki.templates: the template cache, name -> page
  tasks,      \* the fetch_template calls: where each one is and what it returned or raised
  fetches,    \* per name, the remote requests issued (get of get_revisions_for)
  parses,     \* per name, the calls of parsepage made by WikiPage.parse
  failures,   \* per name, the fetch_template calls that ended with an exception of the fetch or the parse
  tc_phase,   \* transcluder: "idle", "building" (the caller assembles a tree) or "done"
  tc_in,      \* the node list handed to Transcluder.transform
  tc_vars,    \* the variables map handed to Transcluder.transform
  tc_shared,  \* whether the template fetcher hands out the tree kept by the page object
  tc_out,     \* the value transform returned, as a tree
  tc_exc,     \* the exception transform ended with, "none" for a normal return
  tc_mem,     \* the objects after transform
  ps_phase,   \* parser: "idle", "building" (the caller assembles a source), or the call made:
              \* "parsed" (parse), "text" (parse_text)
  ps_src,     \* the source string handed to parse
  ps_frags,   \* how many fragments the source was assembled from
  ps_exc,     \* the exception parse ended with, "none" for a normal return
  ps_offset,  \* the offset of the cursor parse read from, when parse ended
  ps_out,     \* the node list parse returned
  inc_phase,  \* inclusion filter: "idle", "building", "filtered" (applied once) or "refiltered"
  inc_in,     \* the node list handed to InclusionTransformer.transform
  inc_ref,    \* the value transform returned, over the objects
  inc_mem,    \* the objects after transform
  inc_out,    \* the value transform returned, as a tree
  inc_again,  \* what transform returned when it was applied to its own result, as a tree
  pg_phase,   \* parsepage: "idle", "building" (the caller assembles a source), "directives"
              \* (in the loop of parse_directives), "body" (before parse_text), "returned", "raised"
  pg_src,     \* the source string handed to parsepage
  pg_frags,   \* how many fragments the source was assembled from
  pg_reader,  \* the cursor of parsepage
  pg_dirs,    \* the list directives of parse_directives, its first MaxDirectives entries
  pg_exc,     \* the exception parsepage ended with, "none" before that and for a normal return
  pg_url,     \* the url a RedirectError carries
  pg_out      \* the body nodes parsepage returned

rdVars == <<rd_stack, rd_last>>
ftVars == <<templates, tasks, fetches, parses, failures>>
tcVars == <<tc_phase, tc_in, tc_vars, tc_shared, tc_out, tc_exc, tc_mem>>
psVars == <<ps_phase, ps_src, ps_frags, ps_exc, ps_offset, ps_out>>
incVars == <<inc_phase, inc_in, inc_ref, inc_mem, inc_out, inc_again>>
pgVars == <<pg_phase, pg_src, pg_frags, pg_reader, pg_dirs, pg_exc, pg_url, pg_out>>
vars == <<rd_stack, rd_last, templates, tasks, fetches, parses, failures,
          tc_phase, tc_in, tc_vars, tc_shared, tc_out, tc_exc, tc_mem,
          ps_phase, ps_src, ps_frags, ps_exc, ps_offset, ps_out,
          inc_phase, inc_in, inc_ref, inc_mem, inc_out, inc_again,
          pg_phase, pg_src, pg_frags, pg_reader, pg_dirs, pg_exc, pg_url, pg_out>>

(***************************************************************************)
(* Bounds of the model.                                                    *)
(***************************************************************************)
MaxSrcLen == 2      \* longest source buffer of the cursor specification
MaxScopes == 2      \* deepest nesting of speculative scopes

(***************************************************************************)
(* Characters.                                                             *)
(***************************************************************************)
UpperChars == <<"A","B","C","D","E","F","G","H","I","J","K","L","M","N","O","P","Q","R","S","T","U","V","W","X","Y","Z">>
LowerChars == <<"a","b","c","d","e","f","g","h","i","j","k","l","m","n","o","p","q","r","s","t","u","v","w","x","y","z">>
DigitChars == <<"0","1","2","3","4","5","6","7","8","9">>

Range(s) == {s[i] : i \in DOMAIN s}

\* str.isspace() on one character
IsSpace(c) == c \in {" ", "\t", "\n", "\r"}

\* str.lower() on one character and on a string
LowerChar(c) ==
  IF \E i \in DOMAIN UpperChars : UpperChars[i] = c
    THEN LowerChars[CHOOSE i \in DOMAIN UpperChars : UpperChars[i] = c]
    ELSE c

Lower(s) == [i \in DOMAIN s |-> LowerChar(s[i])]

Min(a, b) == IF a < b THEN a ELSE b

\* all sequences over S of length 0..n
RECURSIVE SeqsUpTo(_, _)
SeqsUpTo(S, n) ==
  IF n = 0 THEN {<<>>}
  ELSE LET shorter == SeqsUpTo(S, n - 1)
       IN shorter \cup {Append(s, c) : s \in {t \in shorter : Len(t) = n - 1}, c \in S}

(***************************************************************************)
(* SourceReader (source_reader.py).  A cursor is a record; an operation    *)
(* returns [exc, r, v]: the exception, the cursor afterwards (also when it *)
(* raised: a cursor keeps what it consumed before the exception) and the   *)
(* returned value.                                                         *)
(***************************************************************************)
NewReader(src) ==
  [source |-> src, offset |-> 0, line |-> 1, column |-> 0, is_line_start |-> TRUE]

\* SourceReader.__len__
RLen(r) == Len(r.source) - r.offset

Ret(r, v) == [exc |-> "none", r |-> r, v |-> v]
Raise(e, r) == [exc |-> e, r |-> r, v |-> <<>>]

\* next() that does not start the column anew at a newline
Advance_ColumnRunsOn(r) ==
  LET c == r.source[r.offset + 1]
      nl == (c = "\n")
  IN [r EXCEPT !.offset = r.offset + 1,
               !.line = IF nl THEN r.line + 1 ELSE r.line,
               !.column = r.column + 1,
               !.is_line_start = (IF nl THEN TRUE ELSE r.is_line_start) /\ IsSpace(c)]

\* SourceReader.next() for n = 1: lines 27-39
Advance(r) ==
  LET c == r.source[r.offset + 1]
      nl == (c = "\n")
  IN [r EXCEPT !.offset = r.offset + 1,
               !.line = IF nl THEN r.line + 1 ELSE r.line,
               !.column = IF nl THEN 0 ELSE r.column + 1,
               !.is_line_start = (IF nl THEN TRUE ELSE r.is_line_start) /\ IsSpace(c)]

RECURSIVE NextJoin(_, _)
NextJoin(r, n) ==
  IF n = 0 THEN Ret(r, <<>>)
  ELSE LET rest == NextJoin(Advance(r), n - 1)
       IN Ret(rest.r, <<r.source[r.offset + 1]>> \o rest.v)

\* SourceReader.next(n), n >= 1
Next_(r, n) ==
  IF RLen(r) < n THEN Raise("EOFError", r)
  ELSE NextJoin(r, n)

\* SourceReader.peek
Peek(r, n, no_eof) ==
  IF n > RLen(r) /\ no_eof THEN Raise("EOFError", r)
  ELSE Ret(r, SubSeq(r.source, r.offset + 1, Min(r.offset + n, Len(r.source))))

\* SourceReader.peeks
Peeks(r, s, no_eof, case_sensitive) ==
  LET p == Peek(r, Len(s), no_eof)
  IN IF p.exc # "none" THEN p
     ELSE IF ~case_sensitive THEN Ret(r, Lower(p.v) = Lower(s))
     ELSE Ret(r, p.v = s)

\* SourceReader.skip: n calls of next(); a negative n is an empty range
RECURSIVE Skip(_, _)
Skip(r, n) ==
  IF n <= 0 THEN Ret(r, <<>>)
  ELSE IF RLen(r) < 1 THEN Raise("EOFError", r)
  ELSE Skip(Advance(r), n - 1)

\* SourceReader.consume
Consume(r, s, case_sensitive, no_eof) ==
  LET ref == Peek(r, Len(s), no_eof)
  IN IF ref.exc # "none" THEN ref
     ELSE IF (~case_sensitive /\ Lower(ref.v) = Lower(s)) \/ (case_sensitive /\ ref.v = s)
       THEN Ret(Skip(r, Len(s)).r, TRUE)
     ELSE Ret(r, FALSE)

\* isterminated() of consume_until for a sequence of delimiter strings:
\* any(...) evaluates peeks(d, no_eof=True) in order and stops at the first hit.
RECURSIVE AnyPeeks(_, _, _, _)
AnyPeeks(r, delims, i, case_sensitive) ==
  IF i > Len(delims) THEN Ret(r, FALSE)
  ELSE LET p == Peeks(r, delims[i], TRUE, case_sensitive)
       IN IF p.exc # "none" THEN p
          ELSE IF p.v THEN p
          ELSE AnyPeeks(r, delims, i + 1, case_sensitive)

RECURSIVE ConsumeUntilLoop(_, _, _, _)
ConsumeUntilLoop(r, delims, case_sensitive, consumed) ==
  IF RLen(r) = 0 THEN Ret(r, consumed)
  ELSE LET t == AnyPeeks(r, delims, 1, case_sensitive)
       IN IF t.exc # "none" THEN t
          ELSE IF t.v THEN Ret(r, consumed)
          ELSE ConsumeUntilLoop(Advance(r), delims, case_sensitive,
                                Append(consumed, r.source[r.offset + 1]))

\* SourceReader.consume_until with a sequence of delimiter strings
ConsumeUntil(r, delims, case_sensitive, no_eof) ==
  LET loop == ConsumeUntilLoop(r, delims, case_sensitive, <<>>)
  IN IF loop.exc # "none" THEN loop
     ELSE LET t == AnyPeeks(loop.r, delims, 1, case_sensitive)
          IN IF t.exc # "none" THEN t
             ELSE IF ~t.v /\ ~no_eof THEN Raise("EOFError", loop.r)
             ELSE loop

\* SourceReader.copyfrom: the position fields (and the buffer) of other
CopyFrom(self, other) ==
  [self EXCEPT !.source = other.source, !.offset = other.offset, !.line = other.line,
               !.column = other.column, !.is_line_start = other.is_line_start]

\* the position of a cursor
Pos(r) == [offset |-> r.offset, line |-> r.line, column |-> r.column,
           is_line_start |-> r.is_line_start]


(***************************************************************************)
(* SourceConsumer (source_reader.py 130-150): the speculative scope.       *)
(* A scope is [cur, parent, entry_offset] plus two history fields:         *)
(* entry_pos, the parent's position at __enter__, and reverted, whether    *)
(* revert() was the last operation on the child.                           *)
(***************************************************************************)
\* SourceConsumer.__enter__ on the cursor at index p of the stack
ConsumerEnter(parent_cur, p) ==
  [cur |-> CopyFrom(parent_cur, parent_cur), parent |-> p,
   entry_offset |-> parent_cur.offset, entry_pos |-> Pos(parent_cur), reverted |-> FALSE]

\* revert() that also takes the parent's offset as the new entry offset
ConsumerRevert_ResetEntry(con, parent_cur) ==
  [con EXCEPT !.cur = CopyFrom(con.cur, parent_cur), !.reverted = TRUE,
              !.entry_offset = parent_cur.offset]

\* SourceConsumer.revert
ConsumerRevert(con, parent_cur) ==
  [con EXCEPT !.cur = CopyFrom(con.cur, parent_cur), !.reverted = TRUE]

\* __exit__ without its test of exc_type: the parent is advanced whatever the body did
ConsumerExit_AlwaysCommit(con, parent_cur, exc_type) ==
  IF con.entry_offset # parent_cur.offset
    THEN Raise("StateError", parent_cur)
    ELSE [Skip(parent_cur, RLen(parent_cur) - RLen(con.cur)) EXCEPT !.exc = exc_type]

\* SourceConsumer.__exit__(exc_type, ...): [exc, r] with r the parent afterwards.
\* It returns None, so an exception of the body propagates.
ConsumerExit(con, parent_cur, exc_type) ==
  IF exc_type = "none"
    THEN IF con.entry_offset # parent_cur.offset
           THEN Raise("StateError", parent_cur)
           ELSE Skip(parent_cur, RLen(parent_cur) - RLen(con.cur))
    ELSE Raise(exc_type, parent_cur)

(***************************************************************************)
(* The cursor as a state machine: the operations of a scope body act on    *)
(* the innermost open cursor, as everywhere in parser.py.                  *)
(***************************************************************************)
RdAlphabet == {"a", " ", "\n"}
RdStrings == {<<"a">>, <<" ">>, <<"\n">>, <<"a", " ">>, <<"A">>}
RdDelims == {<<<<"a">>>>, <<<<"\n">>, <<" ", "a">>>>}
BodyExceptions == {"ParserError", "EOFError"}

NoExit == [kind |-> "none", exc |-> "none", depth |-> 0, reverted |-> FALSE,
           entry |-> Pos(NewReader(<<>>)), child |-> Pos(NewReader(<<>>)),
           after |-> Pos(NewReader(<<>>))]

Top == Len(rd_stack)

RootScope(src) ==
  [cur |-> NewReader(src), parent |-> 0, entry_offset |-> 0,
   entry_pos |-> Pos(NewReader(src)), reverted |-> FALSE]

\* the parts of the state the cursor specification leaves alone
TcIdle ==
  /\ tc_phase = "idle"
  /\ tc_in = <<>>
  /\ tc_vars = <<>>
  /\ tc_shared = FALSE
  /\ tc_out = [t |-> "none"]
  /\ tc_exc = "none"
  /\ tc_mem = <<>>

PgIdle ==
  /\ pg_phase = "idle"
  /\ pg_src = <<>>
  /\ pg_frags = 0
  /\ pg_reader = <<>>
  /\ pg_dirs = <<>>
  /\ pg_exc = "none"
  /\ pg_url = <<>>
  /\ pg_out = <<>>

IncIdle ==
  /\ inc_phase = "idle"
  /\ inc_in = <<>>
  /\ inc_ref = [t |-> "none"]
  /\ inc_mem = <<>>
  /\ inc_out = [t |-> "none"]
  /\ inc_again = [t |-> "none"]

PsIdle ==
  /\ ps_phase = "idle"
  /\ ps_src = <<>>
  /\ ps_frags = 0
  /\ ps_exc = "none"
  /\ ps_offset = 0
  /\ ps_out = <<>>

FtIdle ==
  /\ templates = [n \in {} |-> 0]
  /\ tasks = <<>>
  /\ fetches = [n \in {} |-> 0]
  /\ parses = [n \in {} |-> 0]
  /\ failures = [n \in {} |-> 0]

RdInit ==
  /\ \E src \in SeqsUpTo(RdAlphabet, MaxSrcLen) : rd_stack = <<RootScope(src)>>
  /\ rd_last = NoExit

\* the cursor at index i becomes res.r; the exception, if any, is left to the body
RdApply(i, res) ==
  /\ rd_stack' = [rd_stack EXCEPT ![i].cur = res.r, ![i].reverted = FALSE]
  /\ rd_last' = NoExit

RdNext ==
  \E n \in 1..2 : RdApply(Top, Next_(rd_stack[Top].cur, n))

RdSkip ==
  \E n \in 0..2 : RdApply(Top, Skip(rd_stack[Top].cur, n))

RdConsume ==
  \E s \in RdStrings, cs \in BOOLEAN, ne \in BOOLEAN :
    RdApply(Top, Consume(rd_stack[Top].cur, s, cs, ne))

RdConsumeUntil ==
  \E d \in RdDelims, ne \in BOOLEAN :
    RdApply(Top, ConsumeUntil(rd_stack[Top].cur, d, TRUE, ne))

RdRevert ==
  /\ Top > 1
  /\ rd_stack' = [rd_stack EXCEPT
                    ![Top] = ConsumerRevert(rd_stack[Top], rd_stack[rd_stack[Top].parent].cur)]
  /\ rd_last' = NoExit

RdEnter ==
  /\ Top <= MaxScopes
  /\ rd_stack' = Append(rd_stack, ConsumerEnter(rd_stack[Top].cur, Top))
  /\ rd_last' = NoExit

\* leaving the innermost scope, the body having ended with exc_type
RdLeave(exc_type) ==
  LET con == rd_stack[Top]
      p == con.parent
      res == ConsumerExit(con, rd_stack[p].cur, exc_type)
  IN /\ Top > 1
     /\ rd_stack' = [SubSeq(rd_stack, 1, Top - 1) EXCEPT ![p].cur = res.r, ![p].reverted = FALSE]
     /\ rd_last' = [kind |-> IF exc_type # "none" THEN "fail"
                             ELSE IF res.exc = "none" THEN "commit" ELSE "state_error",
                    exc |-> res.exc, depth |-> Top - 1, reverted |-> con.reverted,
                    entry |-> con.entry_pos, child |-> Pos(con.cur), after |-> Pos(res.r)]

RdExitNormal == RdLeave("none")

RdExitFail == \E e \in BodyExceptions : RdLeave(e)

RdNextStep ==
  \/ RdNext /\ UNCHANGED <<ftVars, tcVars, psVars, incVars, pgVars>>
  \/ RdSkip /\ UNCHANGED <<ftVars, tcVars, psVars, incVars, pgVars>>
  \/ RdConsume /\ UNCHANGED <<ftVars, tcVars, psVars, incVars, pgVars>>
  \/ RdConsumeUntil /\ UNCHANGED <<ftVars, tcVars, psVars, incVars, pgVars>>
  \/ RdRevert /\ UNCHANGED <<ftVars, tcVars, psVars, incVars, pgVars>>
  \/ RdEnter /\ UNCHANGED <<ftVars, tcVars, psVars, incVars, pgVars>>
  \/ RdExitNormal /\ UNCHANGED <<ftVars, tcVars, psVars, incVars, pgVars>>
  \/ RdExitFail /\ UNCHANGED <<ftVars, tcVars, psVars, incVars, pgVars>>

Init == RdInit /\ FtIdle /\ TcIdle /\ PsIdle /\ IncIdle /\ PgIdle

Spec == Init /\ [][RdNextStep]_vars

\* C1: when a speculative scope is left, the parent's position (offset, line, column,
\* is_line_start) is the child's at exit if the body completed normally, and is its
\* own position at scope entry if the body raised or if revert() was the body's last
\* cursor operation; a body that completes normally always commits. Scopes nest.
C1_ScopeCommitsOrRestores ==
  /\ rd_last.kind \in {"none", "commit", "fail"}
  /\ rd_last.kind = "commit" => rd_last.after = rd_last.child
  /\ (rd_last.kind = "commit" /\ rd_last.reverted) => rd_last.after = rd_last.entry
  /\ rd_last.kind = "fail" => (rd_last.after = rd_last.entry /\ rd_last.exc \in BodyExceptions)

\* a scope nested in a scope has committed a child that read past a newline
C1_Witness ==
  /\ rd_last.kind = "commit"
  /\ rd_last.depth = 2
  /\ ~rd_last.reverted
  /\ rd_last.child.line = 2
  /\ rd_last.child.offset > rd_last.entry.offset



(***************************************************************************)
(* MediaWiki.fetch_template (mediawiki.py 79-93, 105-158, 202-207).        *)
(* The only suspension point of a call is the remote request (get) of      *)
(* get_revisions_for; what precedes it and what follows it run without     *)
(* interruption on the event loop.                                         *)
(***************************************************************************)
NumTasks == 2       \* concurrent callers of fetch_template
MaxCalls == 3       \* calls of fetch_template in one run

TemplateNames == {"T1", "T2"}
ResponseKinds == {"ok", "APIError", "FileNotFoundError"}
ParseOutcomes == {"ok", "ParserError", "RedirectError"}

NoPage == [present |-> FALSE, title |-> "", request |-> 0, parsed |-> FALSE]

\* WikiPage(...) of _get_revision_from, then WikiPage.parse() filling _ast
NewPage(name, request) == [present |-> TRUE, title |-> name, request |-> request, parsed |-> TRUE]

IdleTask == [pc |-> "idle", name |-> "", result |-> ""]

TotalOf(f) == LET RECURSIVE Sum(_)
                  Sum(S) == IF S = {} THEN 0
                            ELSE LET x == CHOOSE y \in S : TRUE IN f[x] + Sum(S \ {x})
              IN Sum(DOMAIN f)

FtInit ==
  /\ templates = [n \in TemplateNames |-> NoPage]
  /\ tasks = [t \in 1..NumTasks |-> IdleTask]
  /\ fetches = [n \in TemplateNames |-> 0]
  /\ parses = [n \in TemplateNames |-> 0]
  /\ failures = [n \in TemplateNames |-> 0]

\* line 87: name not in self.templates
Cached(name) == templates[name].present

\* fetch_template(name) up to its first suspension: lines 87-88, then fetch_page,
\* get_revision and get_revisions_for up to `await get(...)` (line 125). When the
\* name is cached the call goes straight to line 90, where page was never assigned.
FtCall(t, name) ==
  /\ tasks[t].pc \in {"idle", "done"}
  /\ TotalOf(fetches) + TotalOf(failures) < MaxCalls
  /\ IF Cached(name)
       THEN /\ tasks' = [tasks EXCEPT ![t] = [pc |-> "done", name |-> name,
                                              result |-> "UnboundLocalError"]]
            /\ failures' = [failures EXCEPT ![name] = @ + 1]
            /\ UNCHANGED fetches
       ELSE /\ tasks' = [tasks EXCEPT ![t] = [pc |-> "awaiting", name |-> name, result |-> ""]]
            /\ fetches' = [fetches EXCEPT ![name] = @ + 1]
            /\ UNCHANGED failures
  /\ UNCHANGED <<templates, parses>>

\* the response of the remote request is an error object or has no revisions:
\* get_revisions_for line 128-129, _get_revision_from line 147-148
FtFetchFails(t, kind) ==
  /\ tasks[t].pc = "awaiting"
  /\ kind \in ResponseKinds \ {"ok"}
  /\ tasks' = [tasks EXCEPT ![t].pc = "done", ![t].result = kind]
  /\ failures' = [failures EXCEPT ![tasks[t].name] = @ + 1]
  /\ UNCHANGED <<templates, fetches, parses>>

\* fetch_template storing the page before fetch_page has parsed it: the entry is
\* made whatever the parse does
FtFetched_StoreBeforeParse(t, outcome) ==
  /\ tasks[t].pc = "awaiting"
  /\ outcome \in ParseOutcomes
  /\ parses' = [parses EXCEPT ![tasks[t].name] = @ + 1]
  /\ templates' = [templates EXCEPT ![tasks[t].name] =
                     [NewPage(tasks[t].name, fetches[tasks[t].name]) EXCEPT !.parsed = (outcome = "ok")]]
  /\ tasks' = [tasks EXCEPT ![t].pc = "done",
                            ![t].result = IF outcome = "ok" THEN "page" ELSE outcome]
  /\ failures' = [failures EXCEPT ![tasks[t].name] = IF outcome = "ok" THEN @ ELSE @ + 1]
  /\ UNCHANGED fetches

\* the response carries a revision: _get_revision_from returns a new WikiPage,
\* fetch_page parses it (line 83), fetch_template stores it (line 89) and returns
\* it (line 90); a page that does not parse raises out of line 83.
FtFetched(t, outcome) ==
  LET name == tasks[t].name IN
  /\ tasks[t].pc = "awaiting"
  /\ outcome \in ParseOutcomes
  /\ parses' = [parses EXCEPT ![name] = @ + 1]
  /\ IF outcome = "ok"
       THEN /\ templates' = [templates EXCEPT ![name] = NewPage(name, fetches[name])]
            /\ tasks' = [tasks EXCEPT ![t].pc = "done", ![t].result = "page"]
            /\ UNCHANGED failures
       ELSE /\ tasks' = [tasks EXCEPT ![t].pc = "done", ![t].result = outcome]
            /\ failures' = [failures EXCEPT ![name] = @ + 1]
            /\ UNCHANGED templates
  /\ UNCHANGED fetches

\* the driver cancels a call suspended at its request
FtCancel(t) ==
  /\ tasks[t].pc = "awaiting"
  /\ tasks' = [tasks EXCEPT ![t].pc = "done", ![t].result = "CancelledError"]
  /\ failures' = [failures EXCEPT ![tasks[t].name] = @ + 1]
  /\ UNCHANGED <<templates, fetches, parses>>

FtNext ==
  \/ \E t \in DOMAIN tasks, n \in TemplateNames : FtCall(t, n) /\ UNCHANGED <<rdVars, tcVars, psVars, incVars, pgVars>>
  \/ \E t \in DOMAIN tasks, k \in ResponseKinds : FtFetchFails(t, k) /\ UNCHANGED <<rdVars, tcVars, psVars, incVars, pgVars>>
  \/ \E t \in DOMAIN tasks, o \in ParseOutcomes : FtFetched(t, o) /\ UNCHANGED <<rdVars, tcVars, psVars, incVars, pgVars>>
  \/ \E t \in DOMAIN tasks : FtCancel(t) /\ UNCHANGED <<rdVars, tcVars, psVars, incVars, pgVars>>

RdIdle ==
  /\ rd_stack = <<>>
  /\ rd_last = NoExit

FetchInit == FtInit /\ RdIdle /\ TcIdle /\ PsIdle /\ IncIdle /\ PgIdle

FetchSpec == FetchInit /\ [][FtNext]_vars

\* the entries of the template cache: each is a page that was requested and parsed
CacheEntriesComplete ==
  \A n \in TemplateNames :
    templates[n].present =>
      (templates[n].title = n /\ templates[n].parsed /\ 1 <= templates[n].request
       /\ templates[n].request <= fetches[n] /\ parses[n] >= 1)

\* a step that changes the cache entry of n is the return of a call for n whose
\* request was answered and whose page parsed
CacheChangedBySuccess ==
  \A n \in TemplateNames :
    templates'[n] # templates[n] =>
      \E t \in DOMAIN tasks :
        /\ tasks[t].pc = "awaiting" /\ tasks[t].name = n
        /\ tasks'[t].pc = "done" /\ tasks'[t].result = "page"
        /\ templates'[n].present /\ templates'[n].parsed

\* C11: in every reachable state each entry of the template cache is a page whose
\* fetch and parse both completed; a fetch_template call that fails (API error, page
\* not found, parse failure, redirect) or is cancelled inserts no entry and changes none.
C11_CacheHoldsOnlyCompletedPages ==
  []CacheEntriesComplete /\ [][CacheChangedBySuccess]_vars

\* a call whose page was fetched ended with the redirect signal of the parse and its
\* name is not cached, while the call for the other name was fetched, parsed and cached
C11_Witness ==
  \E t \in DOMAIN tasks, u \in DOMAIN tasks, n \in TemplateNames, m \in TemplateNames :
    /\ tasks[t].pc = "done" /\ tasks[t].result = "RedirectError" /\ tasks[t].name = n
    /\ tasks[u].pc = "done" /\ tasks[u].result = "page" /\ tasks[u].name = m
    /\ failures[n] = 1 /\ parses[n] = 1
    /\ ~templates[n].present /\ templates[m].present

\* C10: calls of fetch_template for one name that are in flight together, the name
\* not being cached, make one remote request and one parse for that name: as long
\* as no call for the name has failed, the name has been requested at most once
\* and parsed at most once.
C10_ConcurrentFetchesCoalesce ==
  \A n \in TemplateNames :
    failures[n] = 0 => (fetches[n] <= 1 /\ parses[n] <= 1)


(***************************************************************************)
(* Values of the AST (ast.py).  A Python value is a tagged record: a str,  *)
(* a list (or tuple), None, an int, a bool, an AST node.  A node is        *)
(* written N(name, children) as a tree; the transformers mutate nodes in   *)
(* place (`ast.children = ...`), so they work on a heap of nodes, where a  *)
(* node is R(id) and heap[id] = [name, children].  Lists are never mutated *)
(* after they are built, so they stay values.                              *)
(***************************************************************************)
S(s) == [t |-> "str", s |-> s]
L(xs) == [t |-> "list", xs |-> xs]
None == [t |-> "none"]
I(n) == [t |-> "int", n |-> n]
B(b) == [t |-> "bool", b |-> b]
N(name, children) == [t |-> "node", name |-> name, children |-> children]
R(id) == [t |-> "ref", id |-> id]

\* the node classes of ast.py that the transformers and the renderer meet
TextNode(s) == N("text", L(<<S(s)>>))
TemplateNode(name, posargs, namedargs) == N("template", L(<<name, L(posargs), L(namedargs)>>))
InvokeNode(module, function, posargs, namedargs) ==
  N("invoke", L(<<module, function, L(posargs), L(namedargs)>>))
PosArgNode(values) == N("posarg", L(<<values>>))
NamedArgNode(name, values) == N("namedarg", L(<<name, values>>))
VariableNode(name, defaults) == N("variable", L(<<name, defaults>>))
IfNode(cond, true, false) == N("if", L(<<cond, true, false>>))
IfEqNode(lhs, rhs, true, false) == N("ifeq", L(<<lhs, rhs, true, false>>))
IfExistNode(file, true, false) == N("ifexist", L(<<file, true, false>>))
SwitchNode(value, branches) == N("switch", L(<<value, L(branches)>>))
SwitchBranchNode(ref, rep) == N("linkbranch", L(<<ref, rep>>))
HeadingNode(title, level) == N("heading", L(<<title, I(level)>>))
LinkNode(label, url) == N("link", L(<<label, url>>))
FormatNode(type, values) == N(type, values)
NoIncludeNode(contents) == N("noinclude", contents)
OnlyIncludeNode(contents) == N("onlyinclude", contents)
IncludeOnlyNode(contents) == N("includeonly", contents)

\* the interpreter's memory: the nodes, the deepest nesting of template
\* expansions entered so far, and the trees the template fetcher holds on to
EmptyMem == [heap |-> <<>>, peak |-> 0, store |-> <<>>]

\* utils.isiterable(x) and type(x) is not str: a list or a tuple
IsListLike(v) == v.t = "list"

\* AST.isastlike
IsAstLike(v) == v.t \in {"ref", "node"}

\* `x = e` followed by statements K that use x
With(e, K(_)) == K(e)

\* the statements after a call that may raise: K continues with the value of r,
\* an exception of r ends the handler
Then(r, K(_)) == IF r.exc # "none" THEN r ELSE K(r)

\* a new object of class AST
NewNode(name, c) ==
  [v |-> R(Len(c.m.heap) + 1),
   m |-> [c.m EXCEPT !.heap = Append(@, [name |-> name, children |-> c.v])]]

RECURSIVE Alloc(_, _)
RECURSIVE AllocAll(_, _, _)
\* the objects of a tree written as a value: [v, m] with v the same tree over the heap
Alloc(v, m) ==
  IF v.t = "node" THEN NewNode(v.name, Alloc(v.children, m))
  ELSE IF v.t = "list" THEN With(AllocAll(v.xs, 1, m), LAMBDA a : [v |-> L(a.xs), m |-> a.m])
  ELSE [v |-> v, m |-> m]

AllocAll(xs, i, m) ==
  IF i > Len(xs) THEN [xs |-> <<>>, m |-> m]
  ELSE With(Alloc(xs[i], m), LAMBDA a :
         With(AllocAll(xs, i + 1, a.m), LAMBDA rest :
           [xs |-> <<a.v>> \o rest.xs, m |-> rest.m]))

RECURSIVE Deref(_, _)
\* the tree a heap value stands for, as AST.__repr__ / AST.__eq__ see it
Deref(v, m) ==
  IF v.t = "ref" THEN N(m.heap[v.id].name, Deref(m.heap[v.id].children, m))
  ELSE IF v.t = "list" THEN L([i \in DOMAIN v.xs |-> Deref(v.xs[i], m)])
  ELSE IF v.t = "node" THEN N(v.name, Deref(v.children, m))
  ELSE v

NodeName(v, m) == IF v.t = "ref" THEN m.heap[v.id].name ELSE v.name
NodeChildren(v, m) == IF v.t = "ref" THEN m.heap[v.id].children ELSE v.children

(***************************************************************************)
(* Strings.                                                                *)
(***************************************************************************)
RECURSIVE LStrip(_)
LStrip(s) == IF s # <<>> /\ IsSpace(Head(s)) THEN LStrip(Tail(s)) ELSE s

RECURSIVE RStrip(_)
RStrip(s) == IF s # <<>> /\ IsSpace(s[Len(s)]) THEN RStrip(SubSeq(s, 1, Len(s) - 1)) ELSE s

\* str.strip()
Strip(s) == LStrip(RStrip(s))

RECURSIVE IntToStr(_)
\* str(n) for n >= 0
IntToStr(n) ==
  IF n < 10 THEN <<DigitChars[n + 1]>>
  ELSE IntToStr(n \div 10) \o <<DigitChars[(n % 10) + 1]>>


(***************************************************************************)
(* Renderer (renderer/renderer.py, html.py, identifier.py).                *)
(* Render returns [exc, s].  mode is "html" (HTMLRenderer) or "id"         *)
(* (IdentifierRenderer).                                                   *)
(***************************************************************************)
META_NODES == {"noinclude", "includeonly", "onlyinclude", "nowiki"}

ROk(s) == [exc |-> "none", s |-> s]
RErr(e) == [exc |-> e, s |-> <<>>]

\* a tuple unpacking `a, b, c = node.children` succeeds
Unpacks(v, n) == v.t = "list" /\ Len(v.xs) = n

\* html.htmlescape: the third substitution replaces a backslash by a backslash
RECURSIVE HtmlEscape(_)
HtmlEscape(s) ==
  IF s = <<>> THEN <<>>
  ELSE (IF Head(s) = "\"" THEN <<"\\", "\"">>
        ELSE IF Head(s) = "'" THEN <<"\\", "'">>
        ELSE <<Head(s)>>) \o HtmlEscape(Tail(s))

\* render_simple_tag / the f-strings of html.py
Tagged(open, inner, close) == Then(inner, LAMBDA r : ROk(open \o r.s \o close))

RECURSIVE Render(_, _, _)
RECURSIVE RenderJoin(_, _, _, _)
RECURSIVE RenderAttrs(_, _, _)

\* ''.join(map(self.render, ast))
RenderJoin(xs, i, m, mode) ==
  IF i > Len(xs) THEN ROk(<<>>)
  ELSE Then(Render(xs[i], m, mode), LAMBDA x :
         Then(RenderJoin(xs, i + 1, m, mode), LAMBDA rest : ROk(x.s \o rest.s)))

\* render_html line 46: ' '.join(name="value" ...)
RenderAttrs(attrs, i, m) ==
  IF i > Len(attrs) THEN ROk(<<>>)
  ELSE IF ~IsAstLike(attrs[i]) THEN RErr("AttributeError")
  ELSE With(NodeChildren(attrs[i], m), LAMBDA ch :
         IF ~(ch.t = "list" /\ Len(ch.xs) >= 2) THEN RErr("IndexError")
         ELSE Then(Render(ch.xs[1], m, "id"), LAMBDA nm :
                Then(Render(ch.xs[2], m, "html"), LAMBDA val :
                  Then(RenderAttrs(attrs, i + 1, m), LAMBDA rest :
                    ROk(nm.s \o <<"=", "\"">> \o HtmlEscape(val.s) \o <<"\"">>
                        \o (IF i < Len(attrs) THEN <<" ">> ELSE <<>>) \o rest.s)))))

\* Renderer.render, with the render_<name> methods of the two renderers
Render(v, m, mode) ==
  IF v.t = "str" THEN ROk(v.s)
  ELSE IF v.t = "list" THEN RenderJoin(v.xs, 1, m, mode)
  ELSE IF v.t = "none" THEN ROk(<<"N", "o", "n", "e">>)
  ELSE IF v.t = "int" THEN ROk(IntToStr(v.n))
  ELSE IF v.t = "bool" THEN ROk(IF v.b THEN <<"T", "r", "u", "e">> ELSE <<"F", "a", "l", "s", "e">>)
  ELSE IF ~IsAstLike(v) THEN RErr("TypeError")
  ELSE
    LET name == NodeName(v, m)
        ch == NodeChildren(v, m)
    IN
    IF name = "text"
      THEN IF ch.t = "list" /\ Len(ch.xs) >= 1 /\ ch.xs[1].t = "str"
             THEN ROk(ch.xs[1].s) ELSE RErr("TypeError")
    ELSE IF name \in {"bold", "italic", "underline"}
      THEN IF mode = "id" THEN Render(ch, m, mode)
           ELSE LET tg == CASE name = "bold" -> "b" [] name = "italic" -> "i" [] OTHER -> "u"
                IN Tagged(<<"<", tg, ">">>, Render(ch, m, mode), <<"<", "/", tg, ">">>)
    ELSE IF mode = "html" /\ name = "html"
      THEN IF ~Unpacks(ch, 3) THEN RErr("ValueError")
           ELSE IF ch.xs[1].t # "str" \/ ch.xs[2].t # "list" THEN RErr("TypeError")
           ELSE LET tag == ch.xs[1].s
                    content == Render(ch.xs[3], m, mode)
                IN IF Len(ch.xs[2].xs) > 0
                     THEN Then(RenderAttrs(ch.xs[2].xs, 1, m), LAMBDA sattrs :
                            Tagged(<<"<">> \o tag \o <<" ">> \o sattrs.s \o <<">">>,
                                   content, <<"<", "/">> \o tag \o <<">">>))
                     ELSE Tagged(<<"<">> \o tag \o <<">">>, content, <<"<", "/">> \o tag \o <<">">>)
    ELSE IF mode = "html" /\ name = "heading"
      THEN IF ~Unpacks(ch, 2) THEN RErr("ValueError")
           ELSE Then(Render(ch.xs[2], m, mode), LAMBDA lvl :
                  Tagged(<<"<", "h">> \o lvl.s \o <<">">>, Render(ch.xs[1], m, mode),
                         <<"<", "/", "h">> \o lvl.s \o <<">">>))
    ELSE IF mode = "html" /\ name = "link"
      THEN IF ~Unpacks(ch, 2) THEN RErr("ValueError")
           ELSE Then(Render(ch.xs[2], m, mode), LAMBDA url :
                  Tagged(<<"<", "a", " ", "h", "r", "e", "f", "=", "\"">> \o HtmlEscape(url.s)
                           \o <<"\"", ">">>,
                         Render(ch.xs[1], m, mode), <<"<", "/", "a", ">">>))
    ELSE IF mode = "html" /\ name = "linebreak" THEN ROk(<<"<", "b", "r", "/", ">">>)
    ELSE IF mode = "html" /\ name = "list"
      THEN IF ~Unpacks(ch, 2) THEN RErr("ValueError")
           ELSE LET tg == IF ch.xs[1] = B(TRUE) THEN "o" ELSE "u"
                IN Tagged(<<"<", tg, "l", ">">>, Render(ch.xs[2], m, mode), <<"<", "/", tg, "l", ">">>)
    \* render_listitem reads list.children, and list is the builtin type there
    ELSE IF mode = "html" /\ name = "listitem" THEN RErr("AttributeError")
    \* fallback_render
    ELSE IF name \in META_NODES THEN Render(ch, m, mode)
    ELSE RErr("NotImplementedError")


(***************************************************************************)
(* Inclusion filter (transformer/inclusion.py).                            *)
(***************************************************************************)
\* ast.children = children
SetChildren(v, m, children) ==
  IF v.t = "ref"
    THEN [v |-> v, m |-> [m EXCEPT !.heap[v.id].children = children]]
    ELSE [v |-> N(v.name, children), m |-> m]

\* utils.NotFound, the sentinel of find_onlyinclude
NotFound == [found |-> FALSE, xs |-> <<>>]

RECURSIVE find_onlyinclude(_, _)
RECURSIVE find_onlyinclude_in(_, _, _)

find_onlyinclude_in(xs, i, m) ==
  IF i > Len(xs) THEN <<>>
  ELSE With(find_onlyinclude(xs[i], m), LAMBDA curr :
         (IF curr.found THEN curr.xs ELSE <<>>) \o find_onlyinclude_in(xs, i + 1, m))

find_onlyinclude(ast, m) ==
  IF IsListLike(ast)
    THEN With(find_onlyinclude_in(ast.xs, 1, m), LAMBDA result :
           IF Len(result) > 0 THEN [found |-> TRUE, xs |-> result] ELSE NotFound)
  ELSE IF IsAstLike(ast)
    THEN IF NodeName(ast, m) = "onlyinclude"
           THEN [found |-> TRUE, xs |-> <<ast>>]
           ELSE find_onlyinclude(NodeChildren(ast, m), m)
  ELSE NotFound

RECURSIVE strip_noinclude(_, _)
RECURSIVE strip_noinclude_each(_, _, _)

\* `for node in ast: self.strip_noinclude(node)`: the return value is dropped,
\* only the assignments to node.children stay
strip_noinclude_each(xs, i, m) ==
  IF i > Len(xs) THEN m
  ELSE strip_noinclude_each(xs, i + 1, strip_noinclude(xs[i], m).m)

strip_noinclude(ast, m) ==
  IF IsListLike(ast)
    THEN With(SelectSeq(ast.xs, LAMBDA n : ~IsAstLike(n) \/ NodeName(n, m) # "noinclude"),
              LAMBDA kept : [v |-> L(kept), m |-> strip_noinclude_each(kept, 1, m)])
  ELSE IF IsAstLike(ast)
    THEN With(strip_noinclude(NodeChildren(ast, m), m), LAMBDA c : SetChildren(ast, c.m, c.v))
  ELSE [v |-> ast, m |-> m]

RECURSIVE ExtendChildren(_, _, _)
\* `for node in only: result.extend(node.children)`
ExtendChildren(only, i, m) ==
  IF i > Len(only) THEN <<>>
  ELSE NodeChildren(only[i], m).xs \o ExtendChildren(only, i + 1, m)

\* InclusionTransformer.transform
InclusionTransform(ast, m) ==
  With(find_onlyinclude(ast, m), LAMBDA only :
    IF only.found
      THEN [v |-> L(ExtendChildren(only.xs, 1, m)), m |-> m]
      ELSE strip_noinclude(ast, m))


(***************************************************************************)
(* Transcluder (transformer/transcluder.py, transformer/transformer.py).   *)
(* The collaborator behind TranscluderAPI is the one of the test suite,    *)
(* extended by further template pages; it hands out either a new tree per  *)
(* fetch (test_transcluder.py) or one parsed tree per page, kept by the    *)
(* page object (mediawiki.py, WikiPage.parse).                             *)
(***************************************************************************)
MaxItems == 2
\* The interpreter ends a recursion that is too deep with RecursionError (1000
\* frames, a few frames per open template expansion).  The model's limit is
\* TcRecursionLimit open expansions, and the maximum depth a transcluder is
\* configured with is scaled with it: MaxTransclusionDepth stands for the
\* default of 40, below the interpreter's limit as 40 is.
TcRecursionLimit == 5
MaxTransclusionDepth == 3

sFoo == <<"f", "o", "o">>
sNested == <<"n", "e", "s", "t", "e", "d">>
sWithVar == <<"w", "i", "t", "h", "-", "v", "a", "r">>
sWrapped == <<"w", "r", "a", "p">>
sLoop == <<"l", "o", "o", "p">>
sEmpty == <<"e", "m", "p", "t", "y">>
sTwo == <<"t", "w", "o">>
sOnly == <<"o", "n", "l", "y">>
sDoc == <<"d", "o", "c">>
sBar == <<"b", "a", "r">>
sBaz == <<"b", "a", "z">>
sDefault == <<"#", "d", "e", "f", "a", "u", "l", "t">>

\* a template reference without arguments / with one positional argument
Tpl(name) == TemplateNode(L(<<TextNode(name)>>), <<>>, <<>>)
Tpl1(name, arg) == TemplateNode(L(<<TextNode(name)>>), <<PosArgNode(L(<<TextNode(arg)>>))>>, <<>>)
Var(name) == VariableNode(L(<<TextNode(name)>>), None)

\* the pages of the Template namespace, as parsed trees
TemplatePages ==
  [n \in {sFoo, sNested, sWithVar, sWrapped, sLoop, sEmpty, sTwo, sOnly, sDoc} |->
     CASE n = sFoo -> L(<<TextNode(sFoo)>>)
       [] n = sNested -> L(<<Tpl(sFoo)>>)
       [] n = sWithVar -> L(<<Var(<<"1">>)>>)
       [] n = sWrapped -> L(<<FormatNode("bold", L(<<Var(<<"1">>)>>))>>)
       [] n = sLoop -> L(<<Tpl(sLoop)>>)
       [] n = sEmpty -> L(<<>>)
       [] n = sTwo -> L(<<TextNode(<<"a">>), TextNode(<<"b">>)>>)
       [] n = sOnly -> L(<<TextNode(<<"x">>), OnlyIncludeNode(L(<<TextNode(<<"o">>)>>))>>)
       [] n = sDoc -> L(<<NoIncludeNode(L(<<TextNode(<<"x">>)>>)), TextNode(<<"d">>)>>)]

TOk(v, m) == [exc |-> "none", v |-> v, m |-> m]
TErr(e, m) == [exc |-> e, v |-> None, m |-> m]

\* class unit
unit(ast) == [t |-> "unit", ast |-> ast]

\* utils.iterable: a value that is not iterable is wrapped into a list
iterable(v) == IF v.t \in {"list", "str"} THEN v ELSE L(<<v>>)

\* TranscluderAPI.fetch_template; shared: the page object keeps its parsed tree
fetch_template(name, m, shared) ==
  IF name \notin DOMAIN TemplatePages THEN TErr("FileNotFoundError", m)
  ELSE IF shared /\ name \in DOMAIN m.store THEN TOk(m.store[name], m)
  ELSE LET a == Alloc(TemplatePages[name], m)
       IN TOk(a.v, IF shared THEN [a.m EXCEPT !.store = (name :> a.v) @@ @] ELSE a.m)

\* TranscluderAPI.page_exists
page_exists(name) == name \in {sFoo, sNested, sWithVar}

\* TranscluderAPI.invoke of the test suite
invoke(mod, fn, vs, m) ==
  IF mod = sFoo /\ fn = sBar THEN TOk(S(sBaz), m)
  ELSE IF mod = sBar /\ fn \in {sFoo, sBaz}
    THEN IF fn \notin DOMAIN vs THEN TErr("KeyError", m)
         ELSE LET r == Render(vs[fn], m, "html")
              IN IF r.exc # "none" THEN TErr(r.exc, m) ELSE TOk(S(r.s), m)
  ELSE TOk(S(<<>>), m)

NoVars == [k \in {} |-> None]

RECURSIVE make_posvars(_, _, _)
RECURSIVE make_namedvars(_, _, _, _)

\* transformer.make_vars, first loop
make_posvars(posargs, i, m) ==
  IF i > Len(posargs) THEN [exc |-> "none", vars |-> NoVars]
  ELSE IF ~IsAstLike(posargs[i]) THEN [exc |-> "AttributeError", vars |-> NoVars]
  ELSE LET ch == NodeChildren(posargs[i], m)
           rest == make_posvars(posargs, i + 1, m)
       IN IF ~(ch.t = "list" /\ Len(ch.xs) >= 1) THEN [exc |-> "IndexError", vars |-> NoVars]
          ELSE IF rest.exc # "none" THEN rest
          ELSE [exc |-> "none", vars |-> (IntToStr(i) :> ch.xs[1]) @@ rest.vars]

\* transformer.make_vars, second loop: later entries overwrite earlier ones
make_namedvars(namedargs, i, result, m) ==
  IF i > Len(namedargs) THEN [exc |-> "none", vars |-> result]
  ELSE IF ~IsAstLike(namedargs[i]) THEN [exc |-> "AttributeError", vars |-> NoVars]
  ELSE LET ch == NodeChildren(namedargs[i], m)
       IN IF ~Unpacks(ch, 2) THEN [exc |-> "ValueError", vars |-> NoVars]
          ELSE LET nm == Render(ch.xs[1], m, "html")
               IN IF nm.exc # "none" THEN [exc |-> nm.exc, vars |-> NoVars]
                  ELSE make_namedvars(namedargs, i + 1, (nm.s :> ch.xs[2]) @@ result, m)

make_vars(posargs, namedargs, m) ==
  IF posargs.t # "list" \/ namedargs.t # "list" THEN [exc |-> "TypeError", vars |-> NoVars]
  ELSE LET pos == make_posvars(posargs.xs, 1, m)
       IN IF pos.exc # "none" THEN pos ELSE make_namedvars(namedargs.xs, 1, pos.vars, m)


RECURSIVE transform(_, _, _, _, _)
RECURSIVE transform_list(_, _, _, _, _, _)

\* result.extend(x): the items a value contributes when it is iterated
Items(v) == IF v.t = "str" THEN [i \in DOMAIN v.s |-> S(<<v.s[i]>>)] ELSE v.xs

\* the same for a call that does not touch the objects (render, make_vars)
ThenPure(r, m, K(_)) == IF r.exc # "none" THEN TErr(r.exc, m) ELSE K(r)

\* `a, b, c = await self.transform(node.children, vars)`
Unpacked(r, n, K(_)) ==
  IF r.exc # "none" THEN r
  ELSE IF ~Unpacks(r.v, n) THEN TErr("ValueError", r.m)
  ELSE K(r)

\* Transcluder.transform, the loop over a list: a unit is flattened into the
\* result, every other value is appended
transform_list(xs, i, vs, m, d, shared) ==
  IF i > Len(xs) THEN TOk(L(<<>>), m)
  ELSE Then(transform(xs[i], vs, m, d, shared), LAMBDA transcluded :
         IF transcluded.v.t = "unit" /\ transcluded.v.ast.t \notin {"list", "str"}
           THEN TErr("TypeError", transcluded.m)
           ELSE Then(transform_list(xs, i + 1, vs, transcluded.m, d, shared), LAMBDA rest :
                  TOk(L((IF transcluded.v.t = "unit" THEN Items(transcluded.v.ast)
                                                      ELSE <<transcluded.v>>) \o rest.v.xs),
                      rest.m)))

\* transclude_inclusion
transclude_inclusion(ast, m) == InclusionTransform(ast, m)

\* entering the body of a template: one more expansion is open
Enter(m, d) == [m EXCEPT !.peak = IF d + 1 > @ THEN d + 1 ELSE @]

\* Transcluder._transclude_template, lines 60 to 62: the transcluded children,
\* the fetched body and the variables of the expansion
template_call(tc, shared) ==
  Unpacked(tc, 3, LAMBDA c :
    ThenPure(Render(c.v.xs[1], c.m, "html"), c.m, LAMBDA name :
      Then(fetch_template(name.s, c.m, shared), LAMBDA ast :
        ThenPure(make_vars(c.v.xs[2], c.v.xs[3], ast.m), ast.m, LAMBDA nv :
          [exc |-> "none", v |-> ast.v, m |-> ast.m, vars |-> nv.vars]))))

\* a splice that leaves the inclusion filter out
template_splice_Unfiltered(body) ==
  IF body.exc # "none" THEN body ELSE TOk(unit(iterable(body.v)), body.m)

\* line 63, outside in: the filtered body becomes a unit
template_splice(body) ==
  IF body.exc # "none" THEN body
  ELSE With(transclude_inclusion(body.v, body.m), LAMBDA inc : TOk(unit(iterable(inc.v)), inc.m))

\* line 63, the inner call: d counts the template expansions that are open,
\* the interpreter gives up at TcRecursionLimit
template_expand(call, d, shared) ==
  IF call.exc # "none" THEN call
  ELSE IF d + 1 > TcRecursionLimit THEN TErr("RecursionError", call.m)
  ELSE template_splice(transform(call.v, call.vars, Enter(call.m, d), d + 1, shared))

\* Transcluder._transclude_template
transclude_template(tpl, vs, m, d, shared) ==
  template_expand(template_call(transform(NodeChildren(tpl, m), vs, m, d, shared), shared), d, shared)

\* Transcluder._transclude_variable: the print statement reads vars[name]
transclude_variable(var, vs, m) ==
  Unpacked(TOk(NodeChildren(var, m), m), 2, LAMBDA ch :
    ThenPure(Render(ch.v.xs[1], m, "html"), m, LAMBDA name :
      IF name.s \notin DOMAIN vs THEN TErr("KeyError", m)
      ELSE TOk(unit(iterable(IF name.s \in DOMAIN vs THEN vs[name.s] ELSE ch.v.xs[2])), m)))

\* an if that tests the rendering without trimming it
transclude_if_Untrimmed(node, vs, m, d, shared) ==
  Unpacked(transform(NodeChildren(node, m), vs, m, d, shared), 3, LAMBDA c :
    ThenPure(Render(c.v.xs[1], c.m, "html"), c.m, LAMBDA cond :
      IF cond.s # <<>> THEN TOk(unit(c.v.xs[2]), c.m)
      ELSE TOk(unit(c.v.xs[3]), c.m)))

\* Transcluder._transclude_if
transclude_if(node, vs, m, d, shared) ==
  Unpacked(transform(NodeChildren(node, m), vs, m, d, shared), 3, LAMBDA c :
    ThenPure(Render(c.v.xs[1], c.m, "html"), c.m, LAMBDA cond :
      IF Strip(cond.s) # <<>> THEN TOk(unit(c.v.xs[2]), c.m)
      ELSE TOk(unit(c.v.xs[3]), c.m)))

\* Transcluder._transclude_ifeq
transclude_ifeq(node, vs, m, d, shared) ==
  Unpacked(transform(NodeChildren(node, m), vs, m, d, shared), 4, LAMBDA c :
    ThenPure(Render(c.v.xs[1], c.m, "html"), c.m, LAMBDA slhs :
      ThenPure(Render(c.v.xs[2], c.m, "html"), c.m, LAMBDA srhs :
        IF Strip(slhs.s) = Strip(srhs.s) THEN TOk(unit(c.v.xs[3]), c.m)
        ELSE TOk(unit(c.v.xs[4]), c.m))))

\* Transcluder._transclude_ifexist
transclude_ifexist(node, vs, m, d, shared) ==
  Unpacked(transform(NodeChildren(node, m), vs, m, d, shared), 3, LAMBDA c :
    ThenPure(Render(c.v.xs[1], c.m, "html"), c.m, LAMBDA file :
      IF page_exists(file.s) THEN TOk(unit(c.v.xs[2]), c.m)
      ELSE TOk(unit(c.v.xs[3]), c.m)))

\* Transcluder._transclude_switch: its first statement awaits self.transclude,
\* an attribute that Transcluder and its base class do not have
transclude_switch(node, vs, m) == TErr("AttributeError", m)

\* Transcluder._transclude_invoke: the string of the collaborator is returned as it is
transclude_invoke(node, vs, m, d, shared) ==
  Unpacked(transform(NodeChildren(node, m), vs, m, d, shared), 4, LAMBDA c :
    ThenPure(Render(c.v.xs[1], c.m, "html"), c.m, LAMBDA mod :
      ThenPure(Render(c.v.xs[2], c.m, "html"), c.m, LAMBDA fn :
        ThenPure(make_vars(c.v.xs[3], c.v.xs[4], c.m), c.m, LAMBDA nv :
          invoke(Strip(mod.s), Strip(fn.s), nv.vars, c.m)))))

\* the default of Transcluder.transform: `ast.children = await self.transform(...)`
transform_children(ast, vs, m, d, shared) ==
  Then(transform(NodeChildren(ast, m), vs, m, d, shared), LAMBDA c :
    With(SetChildren(ast, c.m, c.v), LAMBDA set : TOk(set.v, set.m)))

\* Transcluder.transform
transform(ast, vs, m, d, shared) ==
  IF IsListLike(ast) THEN transform_list(ast.xs, 1, vs, m, d, shared)
  ELSE IF IsAstLike(ast)
    THEN LET name == NodeName(ast, m)
         IN CASE name = "template" -> transclude_template(ast, vs, m, d, shared)
              [] name = "variable" -> transclude_variable(ast, vs, m)
              [] name = "if" -> transclude_if(ast, vs, m, d, shared)
              [] name = "ifeq" -> transclude_ifeq(ast, vs, m, d, shared)
              [] name = "ifexist" -> transclude_ifexist(ast, vs, m, d, shared)
              [] name = "switch" -> transclude_switch(ast, vs, m)
              [] name = "invoke" -> transclude_invoke(ast, vs, m, d, shared)
              [] OTHER -> transform_children(ast, vs, m, d, shared)
  ELSE TOk(ast, m)


(***************************************************************************)
(* A caller of the transcluder: it assembles a node list from the shapes   *)
(* below and runs Transcluder.transform on it once.                        *)
(***************************************************************************)
tA == L(<<TextNode(<<"a">>)>>)
tB == L(<<TextNode(<<"b">>)>>)
tYes == L(<<TextNode(<<"y">>)>>)
tNo == L(<<TextNode(<<"n">>)>>)

Shapes ==
  << TextNode(<<"a">>),
     Tpl(sFoo),
     Tpl(sNested),
     Tpl1(sWithVar, <<"a">>),
     Tpl1(sWrapped, <<"a">>),
     Tpl1(sWrapped, <<"b">>),
     Tpl(sLoop),
     Tpl(sEmpty),
     Tpl(sTwo),
     Tpl(sOnly),
     Tpl(sDoc),
     TemplateNode(L(<<TextNode(sWithVar)>>), <<>>, <<NamedArgNode(L(<<TextNode(<<"1">>)>>), tB)>>),
     Var(<<"x">>),
     VariableNode(L(<<TextNode(<<"y">>)>>), tA),
     FormatNode("bold", L(<<Tpl(sFoo)>>)),
     IfNode(L(<<TextNode(<<" ">>)>>), tYes, tNo),
     IfNode(L(<<Tpl(sFoo)>>), tYes, L(<<>>)),
     IfEqNode(L(<<TextNode(<<"a", " ">>)>>), L(<<TextNode(<<" ", "a">>)>>), tYes, tNo),
     IfEqNode(L(<<Tpl1(sWithVar, <<"a">>)>>), tB, L(<<>>), L(<<Tpl(sTwo)>>)),
     IfExistNode(L(<<TextNode(sFoo)>>), tYes, tNo),
     SwitchNode(tA, <<SwitchBranchNode(tA, tYes), SwitchBranchNode(L(<<TextNode(sDefault)>>), tNo)>>),
     InvokeNode(L(<<TextNode(sFoo)>>), L(<<TextNode(sBar)>>), <<>>, <<>>) >>

\* the variables maps a caller passes in
CallerVars ==
  { NoVars,
    (<<"x">> :> L(<<Tpl(sFoo)>>)) }

\* the caller's tree and map as objects: [xs, vars, m]
RECURSIVE AllocVars(_, _, _)
AllocVars(vs, keys, m) ==
  IF keys = {} THEN [vars |-> NoVars, m |-> m]
  ELSE LET k == CHOOSE x \in keys : TRUE
           a == Alloc(vs[k], m)
           rest == AllocVars(vs, keys \ {k}, a.m)
       IN [vars |-> (k :> a.v) @@ rest.vars, m |-> rest.m]

\* one call transform(ast, vars) of a caller, on objects of its own
RunResult(r) == [exc |-> r.exc, out |-> Deref(r.v, r.m), m |-> r.m]

RunObjects(a, v, shared) == RunResult(transform(a.v, v.vars, v.m, 0, shared))

RunWith(a, vs, shared) == RunObjects(a, AllocVars(vs, DOMAIN vs, a.m), shared)

RunTransform(in, vs, shared) == RunWith(Alloc(L(in), EmptyMem), vs, shared)

TcInit ==
  /\ tc_phase = "building"
  /\ tc_in = <<>>
  /\ tc_vars \in CallerVars
  /\ tc_shared \in BOOLEAN
  /\ tc_out = None
  /\ tc_exc = "none"
  /\ tc_mem = EmptyMem

TcAppend(k) ==
  /\ tc_phase = "building"
  /\ Len(tc_in) < MaxItems
  /\ tc_in' = Append(tc_in, Shapes[k])
  /\ UNCHANGED <<tc_phase, tc_vars, tc_shared, tc_out, tc_exc, tc_mem>>

TcReturn(r) ==
  /\ tc_out' = r.out
  /\ tc_exc' = r.exc
  /\ tc_mem' = r.m

TcTransform ==
  /\ tc_phase = "building"
  /\ TcReturn(RunTransform(tc_in, tc_vars, tc_shared))
  /\ tc_phase' = "done"
  /\ UNCHANGED <<tc_in, tc_vars, tc_shared>>

TcNext ==
  \/ \E k \in DOMAIN Shapes : TcAppend(k) /\ UNCHANGED <<rdVars, ftVars, psVars, incVars, pgVars>>
  \/ TcTransform /\ UNCHANGED <<rdVars, ftVars, psVars, incVars, pgVars>>

TranscludeInit == TcInit /\ RdIdle /\ FtIdle /\ PsIdle /\ IncIdle /\ PgIdle

TranscludeSpec == TranscludeInit /\ [][TcNext]_vars


(***************************************************************************)
(* What transclusion is to return, written over trees as values (no        *)
(* objects, nothing is changed in place): each node is replaced by the     *)
(* node list it stands for.  Expand returns [ok, xs], xs the nodes that    *)
(* take the place of the value; ok is FALSE when a template does not       *)
(* resolve or the expansions nest deeper than fuel.                        *)
(***************************************************************************)
Expanded(xs) == [ok |-> TRUE, xs |-> xs]
NotExpanded == [ok |-> FALSE, xs |-> <<>>]

ExpandThen(r, K(_)) == IF ~r.ok THEN r ELSE K(r)

\* the text of a tree of values
Text(v) == Render(v, EmptyMem, "html").s

\* the inclusion filter on a tree of values
Filtered(tree) ==
  LET a == Alloc(tree, EmptyMem)
      f == InclusionTransform(a.v, a.m)
  IN Deref(f.v, f.m)

\* the variables of an expansion, from its expanded argument nodes: "1", "2", ..
\* for the positional ones, the text of the name for the named ones, the last
\* named argument of a name winning
ArgVars(posargs, namedargs) ==
  LET NameOf(i) == Text(namedargs[i].children.xs[1])
      named == {NameOf(i) : i \in DOMAIN namedargs}
      Last(k) == CHOOSE i \in DOMAIN namedargs :
                   NameOf(i) = k /\ \A j \in DOMAIN namedargs : NameOf(j) = k => j <= i
  IN [k \in named \cup {IntToStr(i) : i \in DOMAIN posargs} |->
        IF k \in named THEN namedargs[Last(k)].children.xs[2]
        ELSE posargs[CHOOSE i \in DOMAIN posargs : IntToStr(i) = k].children.xs[1]]

\* the branches of a switch as a map from trimmed ref to body, later ones winning
SwitchBody(value, branches) ==
  LET RefOf(i) == Strip(Text(branches[i].children.xs[1]))
      Hits(k) == {i \in DOMAIN branches : RefOf(i) = k}
      Latest(k) == CHOOSE i \in Hits(k) : \A j \in Hits(k) : j <= i
  IN IF Hits(value) # {} THEN branches[Latest(value)].children.xs[2]
     ELSE IF Hits(sDefault) # {} THEN branches[Latest(sDefault)].children.xs[2]
     ELSE L(<<>>)

RECURSIVE Expand(_, _, _)
RECURSIVE ExpandAll(_, _, _, _)

ExpandAll(xs, i, vs, fuel) ==
  IF i > Len(xs) THEN Expanded(<<>>)
  ELSE ExpandThen(Expand(xs[i], vs, fuel), LAMBDA h :
         ExpandThen(ExpandAll(xs, i + 1, vs, fuel), LAMBDA rest : Expanded(h.xs \o rest.xs)))

\* the children of a node, each list of them expanded
ExpandChildren(node, vs, fuel) == ExpandAll(node.children.xs, 1, vs, fuel)

ExpandTemplate(c, fuel) ==
  IF Text(c[1]) \notin DOMAIN TemplatePages \/ fuel = 0 THEN NotExpanded
  ELSE ExpandThen(Expand(TemplatePages[Text(c[1])], ArgVars(c[2].xs, c[3].xs), fuel - 1),
                  LAMBDA body : Expanded(Filtered(body.xs[1]).xs))

Expand(v, vs, fuel) ==
  IF v.t = "list"
    THEN ExpandThen(ExpandAll(v.xs, 1, vs, fuel), LAMBDA r : Expanded(<<L(r.xs)>>))
  ELSE IF v.t # "node" THEN Expanded(<<v>>)
  ELSE CASE v.name = "template" ->
              ExpandThen(ExpandChildren(v, vs, fuel), LAMBDA c : ExpandTemplate(c.xs, fuel))
         [] v.name = "variable" ->
              IF Text(v.children.xs[1]) \in DOMAIN vs
                THEN Expanded(Items(iterable(vs[Text(v.children.xs[1])])))
              ELSE IF v.children.xs[2] = None THEN Expanded(<<>>)
              ELSE Expanded(Items(iterable(v.children.xs[2])))
         [] v.name = "if" ->
              ExpandThen(ExpandChildren(v, vs, fuel), LAMBDA c :
                Expanded(IF Strip(Text(c.xs[1])) # <<>> THEN c.xs[2].xs ELSE c.xs[3].xs))
         [] v.name = "ifeq" ->
              ExpandThen(ExpandChildren(v, vs, fuel), LAMBDA c :
                Expanded(IF Strip(Text(c.xs[1])) = Strip(Text(c.xs[2])) THEN c.xs[3].xs ELSE c.xs[4].xs))
         [] v.name = "ifexist" ->
              ExpandThen(ExpandChildren(v, vs, fuel), LAMBDA c :
                Expanded(IF page_exists(Text(c.xs[1])) THEN c.xs[2].xs ELSE c.xs[3].xs))
         [] v.name = "switch" ->
              ExpandThen(ExpandChildren(v, vs, fuel), LAMBDA c :
                Expanded(SwitchBody(Strip(Text(c.xs[1])), c.xs[2].xs).xs))
         [] v.name = "invoke" ->
              ExpandThen(ExpandChildren(v, vs, fuel), LAMBDA c :
                Expanded(<<TextNode(invoke(Strip(Text(c.xs[1])), Strip(Text(c.xs[2])),
                                           ArgVars(c.xs[3].xs, c.xs[4].xs), EmptyMem).v.s)>>))
         [] OTHER ->
              ExpandThen(ExpandChildren(v, vs, fuel), LAMBDA c : Expanded(<<N(v.name, L(c.xs))>>))

\* the node list that is to come out of the caller's tree
Expected == Expand(L(tc_in), tc_vars, TcRecursionLimit)


(***************************************************************************)
(* Properties of the transcluder.                                          *)
(***************************************************************************)
Done == tc_phase = "done"
Returned == Done /\ tc_exc = "none"

\* the names of the nodes the caller put into its list
Kinds == {tc_in[i].name : i \in DOMAIN tc_in}

TransclusionNodes == {"template", "variable", "if", "ifeq", "ifexist", "switch", "invoke"}

RECURSIVE HasNode(_, _)
\* a node with one of the names occurs in the tree, at any depth
HasNode(v, names) ==
  IF v.t = "list" THEN \E i \in DOMAIN v.xs : HasNode(v.xs[i], names)
  ELSE IF v.t = "node" THEN v.name \in names \/ HasNode(v.children, names)
  ELSE FALSE

\* C3: with a fetcher that hands out a new tree per fetch, a list of text,
\* formatting and template nodes comes back with every template replaced, at
\* its position, by the filtered transclusion of its fetched body under the
\* variables of its arguments, the other nodes kept, all in source order.
C3_TemplatesSplicedInOrder ==
  (Returned /\ ~tc_shared /\ Kinds \subseteq {"text", "bold", "template"})
    => (Expected.ok /\ tc_out = Expected.xs[1])

C3_Witness ==
  /\ Returned /\ ~tc_shared
  /\ tc_in = <<Tpl(sTwo), Tpl(sNested)>>
  /\ tc_out = L(<<TextNode(<<"a">>), TextNode(<<"b">>), TextNode(sFoo)>>)

\* C4: a tree that transform returned has no template, variable, if, ifeq,
\* ifexist, switch or invoke node at any depth.
C4_NoTransclusionNodeRemains ==
  Returned => ~HasNode(tc_out, TransclusionNodes)

\* C5: a list of variable nodes is transcluded without an error, each variable
\* replaced by its bound value, else by its default, else by nothing.
C5_VariableBoundOrDefault ==
  (Done /\ Kinds = {"variable"})
    => (tc_exc = "none" /\ tc_out = Expected.xs[1])

\* C6: a list of switch nodes is transcluded without an error, each switch
\* replaced by the body of the matching branch, else of #default, else by nothing.
C6_SwitchSelectsBranch ==
  (Done /\ Kinds = {"switch"})
    => (tc_exc = "none" /\ tc_out = Expected.xs[1])

\* C7: in a list of text, if and ifeq nodes every if is replaced by its true
\* branch when the trimmed rendering of its transcluded condition is not
\* empty and by its false branch otherwise, every ifeq by its true branch
\* exactly when the trimmed renderings of its two sides are equal.
C7_IfAndIfEqSelectOneBranch ==
  (Returned /\ Kinds \subseteq {"text", "if", "ifeq"} /\ Kinds \cap {"if", "ifeq"} # {})
    => (Expected.ok /\ tc_out = Expected.xs[1])

C7_Witness ==
  /\ Returned
  /\ tc_in = <<IfNode(L(<<TextNode(<<" ">>)>>), tYes, tNo),
               IfEqNode(L(<<TextNode(<<"a", " ">>)>>), L(<<TextNode(<<" ", "a">>)>>), tYes, tNo)>>
  /\ tc_out = L(<<TextNode(<<"n">>), TextNode(<<"y">>)>>)

RECURSIVE EachAlone(_)
\* what the nodes of a list give when each is transcluded in a list of its own
EachAlone(i) ==
  IF i > Len(tc_in) THEN <<>>
  ELSE RunTransform(<<tc_in[i]>>, tc_vars, tc_shared).out.xs \o EachAlone(i + 1)

C9_DepthExceededIsReported ==
  (Done /\ tc_mem.peak > MaxTransclusionDepth) => tc_exc = "TransclusionDepthExceeded"

(***************************************************************************)
(* The parser (parser.py).  Every function takes the cursor it reads from  *)
(* and returns [exc, r, v]: r is that cursor afterwards, also when the     *)
(* function raised, since the callers that catch an exception go on        *)
(* reading from where the callee stopped.                                  *)
(***************************************************************************)
\* `with reader.consumer() as consumer`: the child cursor the body starts on
ScopeEnter(r) == ConsumerEnter(r, 0).cur

\* the end of a `with reader.consumer()` block whose body ended as b on the child cursor
ScopeExit(r, b) ==
  With(ConsumerExit([ConsumerEnter(r, 0) EXCEPT !.cur = b.r], r, b.exc),
       LAMBDA e : IF e.exc # "none" THEN e ELSE Ret(e.r, b.v))

\* reader.consume(s) with its defaults
Eat(r, s) == Consume(r, s, TRUE, FALSE)

\* the next character of a cursor that is not at its end
Cur(r) == r.source[r.offset + 1]

IsAlpha(c) == c \in Range(LowerChars) \cup Range(UpperChars)
IsDigit(c) == c \in Range(DigitChars)
IsAlnum(c) == IsAlpha(c) \/ IsDigit(c)

RECURSIVE consume_any(_, _, _)
consume_any(r, choices, i) ==
  IF i > Len(choices) THEN Ret(r, None)
  ELSE With(Eat(r, choices[i]),
            LAMBDA c : IF c.v THEN Ret(c.r, S(choices[i])) ELSE consume_any(r, choices, i + 1))

RECURSIVE consume_count_loop(_, _, _)
consume_count_loop(r, c, count) ==
  With(Eat(r, c), LAMBDA e : IF e.v THEN consume_count_loop(e.r, c, count + 1) ELSE Ret(r, count))

consume_count(r, c) == consume_count_loop(r, c, 0)

RECURSIVE consume_whitespace_loop(_, _)
consume_whitespace_loop(r, consumed_any) ==
  IF RLen(r) >= 1 /\ Cur(r) \in {" ", "\t"}
    THEN consume_whitespace_loop(Advance(r), TRUE)
    ELSE Ret(r, consumed_any)

consume_whitespace(r) == consume_whitespace_loop(r, FALSE)

RECURSIVE consume_any_whitespace(_)
consume_any_whitespace(r) ==
  IF RLen(r) >= 1 /\ IsSpace(Cur(r)) THEN consume_any_whitespace(Advance(r)) ELSE Ret(r, None)

RECURSIVE consume_heading_space(_)
consume_heading_space(r) ==
  IF RLen(r) >= 1 /\ Cur(r) \in {" ", "\t"} THEN consume_heading_space(Advance(r)) ELSE Ret(r, None)

RECURSIVE consume_trailing_space(_)
consume_trailing_space(r) ==
  IF RLen(r) < 1 THEN Raise("EOFError", r)
  ELSE IF Cur(r) = "\n" THEN Ret(Advance(r), None)
  ELSE IF ~IsSpace(Cur(r)) THEN Raise("ParserError", Advance(r))
  ELSE consume_trailing_space(Advance(r))

consume_blankline(r) == Eat(consume_whitespace(r).r, <<"\n">>)

RECURSIVE consume_blanklines_loop(_, _)
consume_blanklines_loop(r, consumed_one) ==
  With(consume_blankline(r),
       LAMBDA b : IF b.v THEN consume_blanklines_loop(b.r, TRUE) ELSE Ret(b.r, consumed_one))

consume_blanklines(r) == consume_blanklines_loop(r, FALSE)

\* The tag helpers match a fixed sequence of tokens with optional blanks between them:
\* a token is [s, case_sensitive].  The value is whether all of them matched.
Tok(s) == [s |-> s, case_sensitive |-> TRUE]
TagTok(tag) == [s |-> tag, case_sensitive |-> FALSE]

RECURSIVE consume_tokens(_, _, _)
consume_tokens(c, toks, i) ==
  With(Consume(c, toks[i].s, toks[i].case_sensitive, FALSE),
       LAMBDA e : IF ~e.v THEN Ret(c, FALSE)
                  ELSE IF i = Len(toks) THEN Ret(e.r, TRUE)
                  ELSE consume_tokens(consume_whitespace(e.r).r, toks, i + 1))

\* the tail of consume_opentag and consume_selfclosing_tag: the cursor catches up with the copy
skip_to_copy(r, copy) ==
  IF copy.v THEN Ret(Skip(r, RLen(r) - RLen(copy.r)).r, TRUE) ELSE Ret(r, FALSE)

consume_opentag(r, tag) ==
  skip_to_copy(r, consume_tokens(r, <<Tok(<<"<">>), TagTok(tag), Tok(<<">">>)>>, 1))

RECURSIVE consume_any_opentag(_, _, _)
consume_any_opentag(r, tags, i) ==
  IF i > Len(tags) THEN Ret(r, None)
  ELSE With(consume_opentag(r, tags[i]),
            LAMBDA c : IF c.v THEN Ret(c.r, S(tags[i])) ELSE consume_any_opentag(r, tags, i + 1))

\* every failing branch of the body reverts the consumer, so the scope commits no movement
closetag_body(r, c) == IF c.v THEN c ELSE Ret(r, FALSE)

consume_closetag(r, tag) ==
  ScopeExit(r, closetag_body(r,
    consume_tokens(ScopeEnter(r), <<Tok(<<"<">>), Tok(<<"/">>), TagTok(tag), Tok(<<">">>)>>, 1)))

consume_selfclosing_tag(r, tag) ==
  skip_to_copy(r, consume_tokens(r, <<Tok(<<"<">>), TagTok(tag), Tok(<<"/">>), Tok(<<">">>)>>, 1))

consume_pipe_body(r, c, optional) ==
  With(Eat(consume_any_whitespace(c).r, <<"|">>),
       LAMBDA e : IF e.v THEN Ret(consume_any_whitespace(e.r).r, TRUE)
                  ELSE IF ~optional THEN Raise("ParserError", e.r)
                  ELSE Ret(r, FALSE))

consume_pipe(r, optional) == ScopeExit(r, consume_pipe_body(r, ScopeEnter(r), optional))

consume_tpl_close_body(r, c, optional) ==
  With(Eat(consume_any_whitespace(c).r, <<"}", "}">>),
       LAMBDA e : IF e.v THEN Ret(e.r, TRUE)
                  ELSE IF ~optional THEN Raise("ParserError", e.r)
                  ELSE Ret(r, FALSE))

consume_tpl_close(r, optional) == ScopeExit(r, consume_tpl_close_body(r, ScopeEnter(r), optional))

sInvoke == <<"i", "n", "v", "o", "k", "e", ":">>

consume_invoke_body(r, c) ==
  With(Eat(consume_any_whitespace(c).r, <<"#">>),
       LAMBDA h : IF ~h.v THEN Ret(r, FALSE)
                  ELSE With(Eat(consume_any_whitespace(h.r).r, sInvoke),
                            LAMBDA e : IF e.v THEN Ret(e.r, TRUE) ELSE Ret(r, FALSE)))

consume_invoke(r) == ScopeExit(r, consume_invoke_body(r, ScopeEnter(r)))

\* tplterm: `or` evaluates the second peeks only when the first is False
tplterm(r) ==
  With(Peeks(r, <<"|">>, TRUE, TRUE),
       LAMBDA a : IF a.exc # "none" \/ a.v THEN a ELSE Peeks(r, <<"}", "}">>, TRUE, TRUE))

\* Nodes the parser builds that the transformers above do not name
NewlineNode == N("newline", L(<<>>))
IndentNode(count) == N("indent", L(<<I(count)>>))
LineBreakNode == N("linebreak", L(<<>>))
NoWikiNode(content) == N("nowiki", L(<<S(content)>>))
CommentNode(content) == N("comment", L(<<S(content)>>))
DefRefNode(defids) == N("defref", L(<<L(defids)>>))
ListNode(ordered, items) == N("list", L(<<B(ordered), L(items)>>))
ListItemNode(depth, content) == N("listitem", L(<<I(depth), content>>))
HTMLNode(tag, attributes, contents) == N("html", L(<<S(tag), L(attributes), contents>>))
HTMLAttributeNode(name, value) == N("html-attrib", L(<<name, value>>))

\* the text of a text node
TextOf(node) == node.children.xs[1].s

\* trim_text_nodes, mode 'left': text nodes are never empty where the parser calls it
RECURSIVE trim_left(_)
trim_left(result) ==
  IF result # <<>> /\ result[1].name = "text" /\ IsSpace(TextOf(result[1])[1])
    THEN IF LStrip(TextOf(result[1])) = <<>>
           THEN trim_left(Tail(result))
           ELSE trim_left(<<TextNode(LStrip(TextOf(result[1])))>> \o Tail(result))
    ELSE result

RECURSIVE trim_right(_)
trim_right(result) ==
  IF result # <<>> /\ result[Len(result)].name = "text"
     /\ IsSpace(TextOf(result[Len(result)])[Len(TextOf(result[Len(result)]))])
    THEN IF RStrip(TextOf(result[Len(result)])) = <<>>
           THEN trim_right(SubSeq(result, 1, Len(result) - 1))
           ELSE trim_right(Append(SubSeq(result, 1, Len(result) - 1),
                                  TextNode(RStrip(TextOf(result[Len(result)])))))
    ELSE result

trim_text_nodes(ast, mode) ==
  With(IF mode \in {"left", "both"} THEN trim_left(ast) ELSE ast,
       LAMBDA result : IF mode \in {"right", "both"} THEN trim_right(result) ELSE result)

\* The terminators handed to parse_text: a string of characters or one of the callables
TermChars(s) == [kind |-> "chars", s |-> s]        \* a str: `reader.peek() in terminators`
TermEof == [kind |-> "eof", s |-> <<>>]            \* lambda r: len(r) == 0
TermTpl == [kind |-> "tplterm", s |-> <<>>]        \* tplterm
TermPeeks(s) == [kind |-> "peeks", s |-> s]        \* lambda r: r.peeks(s)
TermCloseTag(tag) == [kind |-> "closetag", s |-> tag]   \* consume_closetag on a copy
TermLine == [kind |-> "line", s |-> <<>>]          \* len(r) == 0 or r.peeks('\n')

\* an error message that is formatted with reader.peek(): at the end of input
\* the formatting raises EOFError before the ParserError exists
UnexpectedPeek(r) == IF RLen(r) < 1 THEN Raise("EOFError", r) ELSE Raise("ParserError", r)

\* c * n
RECURSIVE Rep(_, _)
Rep(c, n) == IF n <= 0 THEN <<>> ELSE <<c>> \o Rep(c, n - 1)

RECURSIVE parse_text(_, _, _, _)
RECURSIVE parse_braces(_)

heading_close(r, title, level) ==
  With(Eat(r, Rep("=", level)),
       LAMBDA e : IF ~e.v THEN UnexpectedPeek(e.r)
                  ELSE Then(consume_trailing_space(e.r),
                            LAMBDA t : Ret(t.r, HeadingNode(title, level))))

heading_title(lv) ==
  IF lv.v > 6 THEN Raise("ParserError", lv.r)
  ELSE Then(parse_text(lv.r, TermChars(<<"=", "\n">>), TRUE, "both"),
            LAMBDA title : heading_close(title.r, title.v, lv.v))

parse_heading(r) ==
  Then(Peeks(r, <<"=">>, TRUE, TRUE),
       LAMBDA p : IF ~p.v THEN Raise("ParserError", r) ELSE heading_title(consume_count(r, <<"=">>)))

RECURSIVE parse_indent_loop(_, _)
parse_indent_loop(r, count) ==
  With(Eat(r, <<":">>),
       LAMBDA e : IF e.v THEN parse_indent_loop(consume_whitespace(e.r).r, count + 1)
                  ELSE Ret(r, IndentNode(count)))

parse_indent(r) ==
  IF ~r.is_line_start THEN Raise("ParserError", r)
  ELSE Then(Peeks(r, <<":">>, TRUE, TRUE),
            LAMBDA p : IF ~p.v THEN UnexpectedPeek(r) ELSE parse_indent_loop(r, 0))

\* one branch of parse_formatting after its opening quotes: the text up to the
\* next quote, then the closing quotes
formatting_body(r, quotes) ==
  Then(ConsumeUntil(r, <<<<"'">>>>, TRUE, FALSE),
       LAMBDA t : With(Eat(t.r, quotes),
                       LAMBDA e : IF e.v THEN Ret(e.r, S(t.v)) ELSE Raise("ParserError", e.r)))

parse_formatting(r) ==
  IF Eat(r, Rep("'", 5)).v
    THEN Then(formatting_body(Eat(r, Rep("'", 5)).r, Rep("'", 5)),
              LAMBDA t : Ret(t.r, N("bold", L(<<N("italic", L(<<t.v>>))>>))))
  ELSE IF Eat(r, Rep("'", 3)).v
    THEN Then(formatting_body(Eat(r, Rep("'", 3)).r, Rep("'", 3)),
              LAMBDA t : Ret(t.r, N("bold", L(<<t.v>>))))
  ELSE IF Eat(r, Rep("'", 2)).v
    THEN Then(formatting_body(Eat(r, Rep("'", 2)).r, Rep("'", 2)),
              LAMBDA t : Ret(t.r, N("italic", L(<<t.v>>))))
  ELSE UnexpectedPeek(r)

link_close(r, label, url) ==
  With(Eat(r, <<"]", "]">>),
       LAMBDA e : IF e.v THEN Ret(e.r, LinkNode(label, url)) ELSE UnexpectedPeek(e.r))

link_label(url, pipe) ==
  IF pipe.v
    THEN Then(parse_text(pipe.r, TermPeeks(<<"]", "]">>), TRUE, "none"),
              LAMBDA label : link_close(label.r, label.v, url.v))
    ELSE link_close(pipe.r, url.v, url.v)

parse_link(r) ==
  With(Eat(r, <<"[", "[">>),
       LAMBDA o : IF ~o.v THEN Raise("ParserError", r)
                  ELSE Then(parse_text(o.r, TermChars(<<"|", "]">>), TRUE, "none"),
                            LAMBDA url : link_label(url, Eat(url.r, <<"|">>))))

\* `txt and result.append(TextNode(txt))`
Flush(result, txt) == IF txt = <<>> THEN result ELSE Append(result, TextNode(txt))

\* parse_template_name: `except ParserError` around parse_braces raises a ParserError again
template_name_braces(b) == IF b.exc = "ParserError" THEN Raise("ParserError", b.r) ELSE b

RECURSIVE parse_template_name_loop(_, _, _)
parse_template_name_loop(r, txt, result) ==
  IF RLen(r) < 1 THEN Raise("EOFError", r)
  ELSE IF Cur(r) \in {"|", "}"} THEN Ret(r, L(trim_text_nodes(Flush(result, txt), "both")))
  ELSE IF Cur(r) = "{"
    THEN Then(template_name_braces(parse_braces(r)),
              LAMBDA b : parse_template_name_loop(b.r, <<>>, Append(Flush(result, txt), b.v)))
  ELSE parse_template_name_loop(Advance(r), Append(txt, Cur(r)), result)

parse_template_name(r) == parse_template_name_loop(r, <<>>, <<>>)

RECURSIVE parse_variable(_)

RECURSIVE parse_variable_name_loop(_, _, _, _)
parse_variable_name_loop(r, delims, txt, result) ==
  IF RLen(r) < 1 THEN Raise("EOFError", r)
  ELSE IF Cur(r) \in Range(delims) THEN Ret(r, L(trim_text_nodes(Flush(result, txt), "both")))
  ELSE IF Cur(r) = "{"
    THEN Then(Peeks(r, <<"{", "{", "{">>, TRUE, TRUE),
              LAMBDA p : IF ~p.v THEN Raise("ParserError", r)
                         ELSE Then(parse_variable(r),
                                   LAMBDA v : parse_variable_name_loop(v.r, delims, <<>>,
                                                Append(Flush(result, txt), v.v))))
  ELSE parse_variable_name_loop(Advance(r), delims, Append(txt, Cur(r)), result)

parse_variable_name(r, delims) == parse_variable_name_loop(r, delims, <<>>, <<>>)

variable_close(r, name, defaults) ==
  With(Eat(r, <<"}", "}", "}">>),
       LAMBDA e : IF e.v THEN Ret(e.r, VariableNode(name, defaults)) ELSE UnexpectedPeek(e.r))

variable_defaults(name, pipe) ==
  IF pipe.v
    THEN Then(parse_text(pipe.r, TermChars(<<"}">>), TRUE, "none"),
              LAMBDA defaults : variable_close(defaults.r, name.v, defaults.v))
    ELSE variable_close(pipe.r, name.v, None)

parse_variable(r) ==
  With(Eat(r, <<"{", "{", "{">>),
       LAMBDA o : IF ~o.v THEN UnexpectedPeek(r)
                  ELSE Then(parse_variable_name(o.r, <<"|", "}">>),
                            LAMBDA name : variable_defaults(name, Eat(name.r, <<"|">>))))

namedarg_value(r, name) ==
  With(Eat(r, <<"=">>),
       LAMBDA e : IF ~e.v THEN Raise("ParserError", e.r)
                  ELSE Then(parse_text(e.r, TermChars(<<"|", "}">>), TRUE, "both"),
                            LAMBDA value : Ret(value.r, NamedArgNode(name, value.v))))

namedarg_body(c) ==
  Then(parse_variable_name(c, <<"=", "|", "}">>), LAMBDA name : namedarg_value(name.r, name.v))

\* the `except ParserError` of parse_template_arg: the argument is positional
posarg_fallback(r, named) ==
  IF named.exc # "ParserError" THEN named
  ELSE Then(parse_text(r, TermChars(<<"|", "}">>), TRUE, "both"),
            LAMBDA value : Ret(value.r, PosArgNode(value.v)))

\* parse_template_arg without its named attempt: every argument is positional
parse_template_arg_Positional(r) ==
  Then(consume_pipe(r, FALSE),
       LAMBDA p : Then(parse_text(p.r, TermChars(<<"|", "}">>), TRUE, "both"),
                       LAMBDA value : Ret(value.r, PosArgNode(value.v))))

parse_template_arg(r) ==
  Then(consume_pipe(r, FALSE),
       LAMBDA p : posarg_fallback(p.r, ScopeExit(p.r, namedarg_body(ScopeEnter(p.r)))))

\* parse_template_args: v is [posargs, namedargs]
RECURSIVE parse_template_args_loop(_, _, _)
parse_template_args_loop(r, posargs, namedargs) ==
  IF ~consume_pipe(r, TRUE).v THEN Ret(r, [posargs |-> posargs, namedargs |-> namedargs])
  ELSE Then(parse_template_arg(r),
            LAMBDA arg : IF arg.v.name = "posarg"
                           THEN parse_template_args_loop(arg.r, Append(posargs, arg.v), namedargs)
                         ELSE IF arg.v.name = "namedarg"
                           THEN parse_template_args_loop(arg.r, posargs, Append(namedargs, arg.v))
                         ELSE Raise("ValueError", arg.r))

parse_template_args(r) == parse_template_args_loop(r, <<>>, <<>>)

template_close(r, name, args) ==
  With(Eat(r, <<"}", "}">>),
       LAMBDA e : IF e.v THEN Ret(e.r, TemplateNode(name, args.posargs, args.namedargs))
                  ELSE Raise("ParserError", e.r))

parse_template(r) ==
  With(Eat(r, <<"{", "{">>),
       LAMBDA o : IF ~o.v THEN Raise("ParserError", r)
                  ELSE Then(parse_template_name(o.r),
                            LAMBDA name : Then(parse_template_args(name.r),
                                               LAMBDA args : template_close(args.r, name.v, args.v))))

is_function(r) ==
  Eat(r, <<"{", "{">>).v /\ Eat(consume_any_whitespace(Eat(r, <<"{", "{">>).r).r, <<"#">>).v

\* `x = parse_text(reader, terminators=tplterm, strip='both'); consume_pipe(reader)`
text_then_pipe(r) ==
  Then(parse_text(r, TermTpl, TRUE, "both"),
       LAMBDA t : Then(consume_pipe(t.r, FALSE), LAMBDA p : Ret(p.r, t.v)))

\* the tail shared by #if, #ifeq and #ifexist: the optional pipe, then the closing braces
function_close(r, true, false) ==
  Then(consume_tpl_close(consume_pipe(r, TRUE).r, FALSE),
       LAMBDA c : Ret(c.r, [true |-> true, false |-> false]))

function_false(true, pipe) ==
  IF pipe.v
    THEN Then(parse_text(pipe.r, TermTpl, TRUE, "both"),
              LAMBDA false : function_close(false.r, true.v, false.v))
    ELSE function_close(pipe.r, true.v, L(<<>>))

\* the true branch and the optional false branch: v is [true, false]
function_branches(r) ==
  Then(parse_text(r, TermTpl, TRUE, "both"),
       LAMBDA true : function_false(true, consume_pipe(true.r, TRUE)))

parse_function_if(r) ==
  With(Eat(r, <<"i", "f", ":">>),
       LAMBDA o : IF ~o.v THEN Raise("ParserError", r)
                  ELSE Then(text_then_pipe(o.r),
                            LAMBDA condition : Then(function_branches(condition.r),
                              LAMBDA b : Ret(b.r, IfNode(condition.v, b.v.true, b.v.false)))))

parse_function_ifeq(r) ==
  With(Eat(r, <<"i", "f", "e", "q", ":">>),
       LAMBDA o : IF ~o.v THEN Raise("ParserError", r)
                  ELSE Then(text_then_pipe(o.r),
                            LAMBDA lhs : Then(text_then_pipe(lhs.r),
                              LAMBDA rhs : Then(function_branches(rhs.r),
                                LAMBDA b : Ret(b.r, IfEqNode(lhs.v, rhs.v, b.v.true, b.v.false))))))

parse_function_ifexist(r) ==
  With(Eat(r, <<"i", "f", "e", "x", "i", "s", "t", ":">>),
       LAMBDA o : IF ~o.v THEN Raise("ParserError", r)
                  ELSE Then(parse_template_name(o.r),
                            LAMBDA file : Then(consume_pipe(file.r, FALSE),
                              LAMBDA p : Then(function_branches(p.r),
                                LAMBDA b : Ret(b.r, IfExistNode(file.v, b.v.true, b.v.false))))))

\* addref of _parse_function_switch_branch: c0 is the consumer as it entered the scope
addref_body(c0, ast) ==
  IF ast.exc # "none" THEN ast
  ELSE IF consume_tpl_close(ast.r, TRUE).v THEN Ret(c0, L(<<TextNode(sDefault)>>))
  ELSE ast

addref(r) ==
  ScopeExit(r, addref_body(ScopeEnter(r),
                           parse_text(ScopeEnter(r), TermChars(<<"=", "|", "}">>), TRUE, "both")))

RECURSIVE addrefs(_, _)
addrefs(r, refs) ==
  Then(addref(r),
       LAMBDA a : With(consume_pipe(a.r, TRUE),
                       LAMBDA p : IF p.v THEN addrefs(p.r, Append(refs, a.v))
                                  ELSE Ret(p.r, Append(refs, a.v))))

\* the branches of one replacement: one SwitchBranchNode per ref
switch_branches(refs, rep) == [i \in DOMAIN refs |-> SwitchBranchNode(refs[i], rep)]

switch_branch_rep(refs, eq) ==
  Then(parse_text(eq.r, TermTpl, TRUE, "both"),
       LAMBDA rep : IF eq.v THEN Ret(rep.r, switch_branches(refs.v, rep.v))
                    ELSE With(consume_tpl_close(rep.r, FALSE),
                              LAMBDA c : IF c.exc # "none" THEN Raise(c.exc, rep.r)
                                         ELSE IF ~c.v THEN Raise("ParserError", rep.r)
                                         ELSE Ret(rep.r, switch_branches(refs.v, rep.v))))

parse_function_switch_branch(r) ==
  Then(addrefs(r, <<>>), LAMBDA refs : switch_branch_rep(refs, Eat(refs.r, <<"=">>)))

RECURSIVE switch_branches_loop(_, _, _)
switch_branches_loop(r, val, branches) ==
  Then(parse_function_switch_branch(r),
       LAMBDA b : With(consume_pipe(b.r, TRUE),
                       LAMBDA p : IF p.v THEN switch_branches_loop(p.r, val, branches \o b.v)
                                  ELSE Then(consume_tpl_close(p.r, FALSE),
                                            LAMBDA c : Ret(c.r, SwitchNode(val, branches \o b.v)))))

parse_function_switch(r) ==
  With(Eat(r, <<"s", "w", "i", "t", "c", "h", ":">>),
       LAMBDA o : IF ~o.v THEN Raise("ParserError", r)
                  ELSE Then(text_then_pipe(o.r), LAMBDA val : switch_branches_loop(val.r, val.v, <<>>)))

invoke_args(r, module, function) ==
  Then(parse_template_args(r),
       LAMBDA args : Then(consume_tpl_close(args.r, FALSE),
                          LAMBDA c : Ret(c.r, InvokeNode(module, function,
                                                         args.v.posargs, args.v.namedargs))))

parse_function_invoke(r) ==
  With(Eat(r, sInvoke),
       LAMBDA o : IF ~o.v THEN Raise("ParserError", r)
                  ELSE Then(parse_template_name(o.r),
                            LAMBDA module : Then(consume_pipe(module.r, FALSE),
                              LAMBDA p : Then(parse_template_name(p.r),
                                LAMBDA function : invoke_args(function.r, module.v, function.v)))))

FunctionNames == <<<<"i", "f", ":">>, <<"i", "f", "e", "q", ":">>,
                   <<"i", "f", "e", "x", "i", "s", "t", ":">>,
                   <<"s", "w", "i", "t", "c", "h", ":">>, sInvoke>>

\* the dispatch of parse_function: each peeks raises EOFError when fewer characters are left
RECURSIVE function_dispatch(_, _)
function_dispatch(r, i) ==
  IF i > 5 THEN Raise("ParserError", r)
  ELSE Then(Peeks(r, FunctionNames[i], TRUE, TRUE),
            LAMBDA p : IF ~p.v THEN function_dispatch(r, i + 1)
                       ELSE CASE i = 1 -> parse_function_if(r)
                              [] i = 2 -> parse_function_ifeq(r)
                              [] i = 3 -> parse_function_ifexist(r)
                              [] i = 4 -> parse_function_switch(r)
                              [] i = 5 -> parse_function_invoke(r))

parse_function(r) ==
  IF ~is_function(r) THEN Raise("ParserError", r)
  ELSE function_dispatch(
         consume_any_whitespace(
           Eat(consume_any_whitespace(Eat(r, <<"{", "{">>).r).r, <<"#">>).r).r, 1)

\* parse_braces: a variable, else a parser function, else a template
braces_template(r, t) == IF t.exc = "ParserError" THEN Raise("ParserError", r) ELSE t

braces_function(r, v) ==
  IF v.exc # "ParserError" THEN v
  ELSE IF is_function(r) THEN parse_function(r)
  ELSE braces_template(r, ScopeExit(r, parse_template(ScopeEnter(r))))

parse_braces(r) == braces_function(r, ScopeExit(r, parse_variable(ScopeEnter(r))))

\* parse_html, the comment: the dashes after "<!--", blanks, then everything up to "-->"
RECURSIVE skip_dashes(_)
skip_dashes(r) ==
  Then(Peeks(r, <<"-">>, TRUE, TRUE),
       LAMBDA p : IF p.v THEN skip_dashes(Advance(r)) ELSE Ret(r, None))

\* str.rstrip(chars)
RECURSIVE RStripChars(_, _)
RStripChars(s, chars) ==
  IF s # <<>> /\ s[Len(s)] \in chars THEN RStripChars(SubSeq(s, 1, Len(s) - 1), chars) ELSE s

RECURSIVE comment_content(_, _)
comment_content(r, content) ==
  IF Eat(r, <<"-", "-", ">">>).v
    THEN Ret(Eat(r, <<"-", "-", ">">>).r, CommentNode(RStripChars(content, {" ", "-"})))
  ELSE IF RLen(r) < 1 THEN Raise("EOFError", r)
  ELSE comment_content(Advance(r), Append(content, Cur(r)))

parse_comment(r) ==
  Then(skip_dashes(r), LAMBDA d : comment_content(consume_whitespace(d.r).r, <<>>))

sNowiki == <<"n", "o", "w", "i", "k", "i">>
InclusionTags == << <<"n", "o", "i", "n", "c", "l", "u", "d", "e">>,
                    <<"o", "n", "l", "y", "i", "n", "c", "l", "u", "d", "e">>,
                    <<"i", "n", "c", "l", "u", "d", "e", "o", "n", "l", "y">> >>

RECURSIVE nowiki_content(_, _)
nowiki_content(r, s) ==
  IF consume_closetag(r, sNowiki).v THEN Ret(consume_closetag(r, sNowiki).r, NoWikiNode(s))
  ELSE IF RLen(r) < 1 THEN Raise("EOFError", r)
  ELSE nowiki_content(Advance(r), Append(s, Cur(r)))

\* <noinclude>, <onlyinclude>, <includeonly> and <b>: the contents, then the close tag
html_closed(r, tag, name) ==
  Then(parse_text(r, TermCloseTag(tag), TRUE, "none"),
       LAMBDA contents : Ret(consume_closetag(contents.r, tag).r, N(name, contents.v)))

\* <i> and <u>: the close tag is left in the input
html_unclosed(r, tag, name) ==
  Then(parse_text(r, TermCloseTag(tag), TRUE, "none"),
       LAMBDA content : Ret(content.r, FormatNode(name, content.v)))

generic_tagname_first(r, tag) ==
  IF RLen(r) < 1 THEN Raise("EOFError", r)
  ELSE IF ~IsAlpha(Cur(r)) THEN Raise("ParserError", Advance(r))
  ELSE Ret(Advance(r), Append(tag, Cur(r)))

RECURSIVE generic_tagname_rest(_, _)
generic_tagname_rest(r, tag) ==
  IF RLen(r) < 1 THEN Raise("EOFError", r)
  ELSE IF IsSpace(Cur(r)) \/ Cur(r) \in {"/", ">"} THEN Ret(r, tag)
  ELSE IF ~IsAlnum(Cur(r)) /\ Cur(r) \notin {"-", "_", ":"} THEN Raise("ParserError", Advance(r))
  ELSE generic_tagname_rest(Advance(r), Append(tag, Cur(r)))

\* the optional ':' in front of a tag name or an attribute name
name_colon(c) == Ret(c.r, IF c.v THEN <<":">> ELSE <<>>)

parse_generic_html_tagname(r) ==
  With(name_colon(Eat(consume_whitespace(r).r, <<":">>)),
       LAMBDA c : Then(generic_tagname_first(c.r, c.v),
                       LAMBDA f : generic_tagname_rest(f.r, f.v)))

\* append_text of _parse_generic_html_attribute_name
FlushStripped(result, txt) == IF Strip(txt) = <<>> THEN result ELSE Append(result, TextNode(txt))

RECURSIVE attribute_name_rest(_, _, _)
attribute_name_rest(r, txt, result) ==
  IF RLen(r) < 1 THEN Raise("EOFError", r)
  ELSE IF IsSpace(Cur(r)) \/ Cur(r) \in {"=", "/", ">"}
    THEN Ret(r, L(trim_text_nodes(FlushStripped(result, txt), "both")))
  ELSE Then(Peeks(r, <<"{", "{">>, TRUE, TRUE),
            LAMBDA p : IF p.v
                         THEN Then(parse_braces(r),
                                   LAMBDA b : attribute_name_rest(b.r, <<>>,
                                                Append(FlushStripped(result, txt), b.v)))
                       ELSE IF ~IsAlnum(Cur(r)) /\ Cur(r) \notin {"-", "_", ":"}
                         THEN Raise("ParserError", Advance(r))
                       ELSE attribute_name_rest(Advance(r), Append(txt, Cur(r)), result))

parse_generic_html_attribute_name(r) ==
  With(name_colon(Eat(consume_whitespace(r).r, <<":">>)),
       LAMBDA c : Then(generic_tagname_first(c.r, c.v),
                       LAMBDA f : attribute_name_rest(f.r, f.v, <<>>)))

\* `txt += reader.next()` of the attribute value, after an optional backslash
value_char(r, txt) ==
  IF RLen(r) < 1 THEN Raise("EOFError", r) ELSE Ret(Advance(r), Append(txt, Cur(r)))

RECURSIVE attribute_value_rest(_, _, _)
attribute_value_rest(r, txt, result) ==
  Then(Peeks(r, <<"\"">>, TRUE, TRUE),
       LAMBDA q : IF q.v THEN Ret(Advance(r), L(Flush(result, txt)))
                  ELSE Then(Peeks(r, <<"{", "{">>, TRUE, TRUE),
                            LAMBDA p : IF p.v
                                         THEN Then(parse_braces(r),
                                                   LAMBDA b : attribute_value_rest(b.r, <<>>,
                                                                Append(Flush(result, txt), b.v)))
                                       ELSE Then(value_char(Eat(r, <<"\\">>).r, txt),
                                                 LAMBDA c : attribute_value_rest(c.r, c.v, result))))

parse_generic_html_attribute_value(r) ==
  IF ~Eat(r, <<"\"">>).v THEN UnexpectedPeek(r)
  ELSE attribute_value_rest(Eat(r, <<"\"">>).r, <<>>, <<>>)

attribute_value(attr, eq) ==
  IF eq.v
    THEN Then(parse_generic_html_attribute_value(consume_whitespace(eq.r).r),
              LAMBDA value : Ret(value.r, HTMLAttributeNode(attr.v, value.v)))
    ELSE Ret(eq.r, HTMLAttributeNode(attr.v, None))

parse_generic_html_attribute(r) ==
  Then(parse_generic_html_attribute_name(r),
       LAMBDA attr : attribute_value(attr, Eat(consume_whitespace(attr.r).r, <<"=">>)))

generic_contents(c0, tag) ==
  Then(parse_text(c0, TermCloseTag(tag), TRUE, "none"),
       LAMBDA contents : With(consume_closetag(contents.r, tag),
                              LAMBDA k : IF k.v THEN Ret(k.r, contents.v) ELSE Ret(c0, L(<<>>))))

\* the end of the open tag: "/>" makes an empty element, ">" is followed by the contents
generic_end(r, tag, attribs) ==
  IF Eat(r, <<"/">>).v
    THEN With(Eat(consume_whitespace(Eat(r, <<"/">>).r).r, <<">">>),
              LAMBDA e : IF e.v THEN Ret(e.r, HTMLNode(tag, attribs, L(<<>>)))
                         ELSE UnexpectedPeek(e.r))
  ELSE With(Eat(r, <<">">>),
            LAMBDA e : IF ~e.v THEN UnexpectedPeek(e.r)
                       ELSE Then(ScopeExit(e.r, generic_contents(ScopeEnter(e.r), tag)),
                                 LAMBDA contents : Ret(contents.r, HTMLNode(tag, attribs, contents.v))))

RECURSIVE generic_attributes(_, _, _)
generic_attributes(r, tag, attribs) ==
  IF RLen(r) < 1 THEN Raise("EOFError", r)
  ELSE IF Cur(r) \in {"/", ">"} THEN generic_end(r, tag, attribs)
  ELSE Then(parse_generic_html_attribute(r),
            LAMBDA a : generic_attributes(consume_whitespace(a.r).r, tag, Append(attribs, a.v)))

generic_tag(r) ==
  IF Eat(r, <<"/">>).v THEN Raise("ParserError", Eat(r, <<"/">>).r)
  ELSE Then(parse_generic_html_tagname(r),
            LAMBDA tag : generic_attributes(consume_whitespace(tag.r).r, tag.v, <<>>))

generic_body(c) ==
  With(Eat(consume_whitespace(c).r, <<"<">>),
       LAMBDA o : IF ~o.v THEN Raise("ParserError", o.r)
                  ELSE generic_tag(consume_whitespace(o.r).r))

parse_generic_html(r) == ScopeExit(r, generic_body(ScopeEnter(r)))

\* AST(tag, contents): the node is named after the tag as the source spells it
InclusionName(tag) ==
  CASE tag = InclusionTags[1] -> "noinclude"
    [] tag = InclusionTags[2] -> "onlyinclude"
    [] tag = InclusionTags[3] -> "includeonly"

inclusion_tag(tag) == html_closed(tag.r, tag.v.s, InclusionName(tag.v.s))

parse_html(r) ==
  IF Eat(r, <<"<", "!", "-", "-">>).v THEN parse_comment(Eat(r, <<"<", "!", "-", "-">>).r)
  ELSE IF consume_selfclosing_tag(r, sNowiki).v
    THEN Ret(consume_selfclosing_tag(r, sNowiki).r, NoWikiNode(<<>>))
  ELSE IF consume_opentag(r, sNowiki).v THEN nowiki_content(consume_opentag(r, sNowiki).r, <<>>)
  ELSE IF consume_any_opentag(r, InclusionTags, 1).v.t # "none"
    THEN inclusion_tag(consume_any_opentag(r, InclusionTags, 1))
  ELSE IF consume_opentag(r, <<"b">>).v
    THEN html_closed(consume_opentag(r, <<"b">>).r, <<"b">>, "bold")
  ELSE IF consume_opentag(r, <<"i">>).v
    THEN html_unclosed(consume_opentag(r, <<"i">>).r, <<"i">>, "italic")
  ELSE IF consume_opentag(r, <<"u">>).v
    THEN html_unclosed(consume_opentag(r, <<"u">>).r, <<"u">>, "underline")
  ELSE IF consume_opentag(r, <<"b", "r">>).v
    THEN Ret(consume_opentag(r, <<"b", "r">>).r, LineBreakNode)
  ELSE IF consume_selfclosing_tag(r, <<"b", "r">>).v
    THEN Ret(consume_selfclosing_tag(r, <<"b", "r">>).r, LineBreakNode)
  ELSE parse_generic_html(r)

DigitValue(c) == (CHOOSE i \in DOMAIN DigitChars : DigitChars[i] = c) - 1

\* parse_int: the n-th digit read is weighted with 10**n
RECURSIVE parse_int_loop(_, _, _)
parse_int_loop(r, i, n) ==
  IF RLen(r) < 1 THEN Raise("EOFError", r)
  ELSE IF IsDigit(Cur(r)) THEN parse_int_loop(Advance(r), i + DigitValue(Cur(r)) * 10^n, n + 1)
  ELSE Ret(r, i)

parse_int(r) ==
  IF RLen(r) < 1 THEN Raise("EOFError", r)
  ELSE IF ~IsDigit(Cur(r)) THEN Raise("ParserError", r)
  ELSE parse_int_loop(r, 0, 0)

\* list(map(str, range(lower, upper + 1)))
RECURSIVE RangeStrs(_, _)
RangeStrs(lower, upper) ==
  IF lower > upper THEN <<>> ELSE <<IntToStr(lower)>> \o RangeStrs(lower + 1, upper)

\* the second dash parse_defref_id accepts: the source file spells it with the
\* three characters U+00E2 U+20AC U+201C, each written here by its code point
sDash == <<"U+00E2", "U+20AC", "U+201C">>

range_dash(c) == IF Eat(c, <<"-">>).v THEN Eat(c, <<"-">>) ELSE Eat(c, sDash)

range_body(c, lower) ==
  With(range_dash(consume_whitespace(c).r),
       LAMBDA d : IF ~d.v THEN Raise("ParserError", d.r)
                  ELSE Then(parse_int(consume_whitespace(d.r).r),
                            LAMBDA upper : Ret(upper.r, RangeStrs(lower, upper.v))))

\* the `except ParserError` of parse_defref_id: the id is the single number
defref_single(r, lower, range) ==
  IF range.exc = "ParserError" THEN Ret(r, <<IntToStr(lower)>>) ELSE range

parse_defref_id(r) ==
  Then(parse_int(r),
       LAMBDA lower : IF RLen(lower.r) < 1 THEN Raise("EOFError", lower.r)
                      ELSE IF IsAlpha(Cur(lower.r))
                        THEN Ret(Advance(lower.r), <<Append(IntToStr(lower.v), Cur(lower.r))>>)
                      ELSE defref_single(lower.r, lower.v,
                                         ScopeExit(lower.r, range_body(ScopeEnter(lower.r), lower.v))))

\* the order of str on the characters of a defref id
CharOrder == DigitChars \o UpperChars \o LowerChars
Ord(c) == CHOOSE i \in DOMAIN CharOrder : CharOrder[i] = c

RECURSIVE StrLess(_, _)
StrLess(a, b) ==
  IF b = <<>> THEN FALSE
  ELSE IF a = <<>> THEN TRUE
  ELSE IF Head(a) # Head(b) THEN Ord(Head(a)) < Ord(Head(b))
  ELSE StrLess(Tail(a), Tail(b))

\* list(sorted(ids)) as a list of str values
RECURSIVE SortedStrs(_)
SortedStrs(ids) ==
  IF ids = {} THEN <<>>
  ELSE With(CHOOSE x \in ids : \A y \in ids \ {x} : StrLess(x, y),
            LAMBDA least : <<S(least)>> \o SortedStrs(ids \ {least}))

RECURSIVE defref_ids_rest(_, _)
defref_ids_rest(r, ids) ==
  With(Eat(r, <<",">>),
       LAMBDA comma : IF ~comma.v THEN Ret(r, SortedStrs(ids))
                      ELSE Then(parse_defref_id(consume_whitespace(comma.r).r),
                                LAMBDA id : defref_ids_rest(consume_whitespace(id.r).r,
                                                            ids \cup Range(id.v))))

parse_defref_ids(r) ==
  Then(parse_defref_id(consume_whitespace(r).r),
       LAMBDA id : defref_ids_rest(consume_whitespace(id.r).r, Range(id.v)))

defref_close(ids) ==
  With(Eat(ids.r, <<"]">>),
       LAMBDA e : IF e.v THEN Ret(e.r, DefRefNode(ids.v)) ELSE UnexpectedPeek(e.r))

parse_defref(r) ==
  IF Eat(r, <<"[", "*", "]">>).v THEN Ret(Eat(r, <<"[", "*", "]">>).r, DefRefNode(<<S(<<"*">>)>>))
  ELSE IF Eat(r, <<"[", "?", "]">>).v THEN Raise("SkipNode", Eat(r, <<"[", "?", "]">>).r)
  ELSE IF ~Eat(r, <<"[">>).v THEN UnexpectedPeek(r)
  ELSE Then(parse_defref_ids(Eat(r, <<"[">>).r), LAMBDA ids : defref_close(ids))

unordered_list_item(r) ==
  Then(Peeks(r, <<"*">>, TRUE, TRUE),
       LAMBDA p : IF ~p.v THEN UnexpectedPeek(r)
                  ELSE With(consume_count(r, <<"*">>),
                            LAMBDA depth :
                              Then(parse_text(consume_whitespace(depth.r).r, TermLine, TRUE, "both"),
                                   LAMBDA content : Ret(content.r, ListItemNode(depth.v, content.v)))))

parse_unordered_list_item(r) ==
  IF ~r.is_line_start THEN Raise("ParserError", r)
  ELSE unordered_list_item(consume_whitespace(r).r)

RECURSIVE parse_unordered_list_loop(_, _)

\* after an item: the rest of its line, blank lines, and another item if a '*' follows
unordered_list_next(items, t) ==
  IF t.exc = "EOFError" THEN Ret(t.r, ListNode(FALSE, items))
  ELSE IF t.exc # "none" THEN t
  ELSE With(consume_blanklines(t.r),
            LAMBDA b : IF Peeks(b.r, <<"*">>, FALSE, TRUE).v
                         THEN parse_unordered_list_loop(b.r, items)
                         ELSE Ret(b.r, ListNode(FALSE, items)))

parse_unordered_list_loop(r, items) ==
  Then(parse_unordered_list_item(r),
       LAMBDA item : unordered_list_next(Append(items, item.v), consume_trailing_space(item.r)))

parse_unordered_list(r) == parse_unordered_list_loop(r, <<>>)

\* isterminated of parse_text: a callable is called on a copy of the cursor; calling a
\* str raises the TypeError that leads to `reader.peek() in terminators`
isterminated(r, terminators) ==
  CASE terminators.kind = "chars" ->
         Then(Peek(r, 1, TRUE), LAMBDA p : Ret(r, p.v[1] \in Range(terminators.s)))
    [] terminators.kind = "eof" -> Ret(r, RLen(r) = 0)
    [] terminators.kind = "tplterm" -> tplterm(r)
    [] terminators.kind = "peeks" -> Peeks(r, terminators.s, TRUE, TRUE)
    [] terminators.kind = "closetag" -> Ret(r, consume_closetag(r, terminators.s).v)
    [] terminators.kind = "line" ->
         IF RLen(r) = 0 THEN Ret(r, TRUE) ELSE Peeks(r, <<"\n">>, TRUE, TRUE)

RECURSIVE parse_text_loop(_, _, _, _)

\* a branch of the loop that appends a node: append_text(), values.append(node)
text_node(x, terminators, value, values) ==
  Then(x, LAMBDA node : parse_text_loop(node.r, terminators, <<>>, Append(Flush(values, value), node.v)))

\* `value += reader.next()`
text_char(r, terminators, value, values) ==
  IF RLen(r) < 1 THEN Raise("EOFError", r)
  ELSE parse_text_loop(Advance(r), terminators, Append(value, Cur(r)), values)

\* the '<' branch: a ParserError or EOFError of parse_html makes the character at the
\* cursor plain text; parse_html reads from the cursor itself
text_html(html, terminators, value, values) ==
  IF html.exc \in {"ParserError", "EOFError"} THEN text_char(html.r, terminators, value, values)
  ELSE text_node(html, terminators, value, values)

\* the body of the scope without its `except SkipNode`
defref_body_SkipEscapes(d) == d

\* the body of the scope of the '[' branch: SkipNode is swallowed inside the scope
defref_body(d) == IF d.exc = "SkipNode" THEN Ret(d.r, None) ELSE d

text_defref(r, d, terminators, value, values) ==
  IF d.exc = "ParserError" THEN text_char(r, terminators, value, values)
  ELSE IF d.exc # "none" THEN d
  ELSE IF d.v.t = "none" THEN parse_text_loop(d.r, terminators, value, values)
  ELSE text_node(d, terminators, value, values)

\* which branch of the loop body the cursor selects, the conditions tested in the
\* order of the if/elif chain
text_branch(r) ==
  IF r.is_line_start /\ Peeks(r, <<"=">>, FALSE, TRUE).v THEN "heading"
  ELSE IF r.is_line_start /\ Peeks(r, <<":">>, FALSE, TRUE).v THEN "indent"
  ELSE IF r.is_line_start /\ Peeks(r, <<"*">>, FALSE, TRUE).v THEN "list"
  ELSE IF Peeks(r, <<"'", "'">>, FALSE, TRUE).v THEN "formatting"
  ELSE IF Peeks(r, <<"<">>, FALSE, TRUE).v THEN "html"
  ELSE IF Peeks(r, <<"[", "[">>, FALSE, TRUE).v THEN "link"
  ELSE IF Peeks(r, <<"{", "{">>, FALSE, TRUE).v THEN "braces"
  ELSE IF Peeks(r, <<"[">>, FALSE, TRUE).v THEN "defref"
  ELSE IF Eat(r, <<"\n">>).v THEN "newline"
  ELSE "char"

parse_text_step(r, terminators, value, values) ==
  CASE text_branch(r) = "char" -> text_char(r, terminators, value, values)
    [] text_branch(r) = "heading" -> text_node(parse_heading(r), terminators, value, values)
    [] text_branch(r) = "indent" -> text_node(parse_indent(r), terminators, value, values)
    [] text_branch(r) = "list" -> text_node(parse_unordered_list(r), terminators, value, values)
    [] text_branch(r) = "formatting" -> text_node(parse_formatting(r), terminators, value, values)
    [] text_branch(r) = "html" -> text_html(parse_html(r), terminators, value, values)
    [] text_branch(r) = "link" -> text_node(parse_link(r), terminators, value, values)
    [] text_branch(r) = "braces" -> text_node(parse_braces(r), terminators, value, values)
    [] text_branch(r) = "defref" ->
         text_defref(r, ScopeExit(r, defref_body(parse_defref(ScopeEnter(r)))),
                     terminators, value, values)
    [] text_branch(r) = "newline" ->
         text_node(Ret(Eat(r, <<"\n">>).r, NewlineNode), terminators, value, values)

\* `while len(reader) and not isterminated()`: v is what the loop leaves in value and values
parse_text_loop(r, terminators, value, values) ==
  IF RLen(r) = 0 THEN Ret(r, [value |-> value, values |-> values])
  ELSE IF isterminated(r, terminators).exc # "none" THEN isterminated(r, terminators)
  ELSE IF isterminated(r, terminators).v THEN Ret(r, [value |-> value, values |-> values])
  ELSE parse_text_step(r, terminators, value, values)

\* the end of parse_text: append_text() and trim_text_nodes
text_result(loop, strip) ==
  Ret(loop.r, L(trim_text_nodes(Flush(loop.v.values, loop.v.value), strip)))

parse_text(r, terminators, no_eof, strip) ==
  Then(parse_text_loop(r, terminators, <<>>, <<>>),
       LAMBDA loop : IF ~no_eof THEN text_result(loop, strip)
                     ELSE Then(isterminated(loop.r, terminators),
                               LAMBDA t : IF ~t.v THEN Raise("EOFError", loop.r)
                                          ELSE text_result(loop, strip)))

\* parse without its terminators argument: parse_text stops at the first newline
parse_DefaultTerminators(source) == parse_text(NewReader(source), TermChars(<<"\n">>), FALSE, "both")

\* parse(source): the whole input as text
parse(source) == parse_text(NewReader(source), TermEof, FALSE, "both")

(***************************************************************************)
(* The caller of the parser as a state machine: it assembles a source from *)
(* fragments of WikiText, whole constructs and broken ones, and hands it   *)
(* to parse.                                                               *)
(***************************************************************************)
MaxFragments == 2   \* fragments in one source

Fragments ==
  << <<"a">>, <<" ">>, <<"\n">>, <<"|">>, <<":">>,
     <<"=", "a", "=">>,
     <<"*", "a">>,
     <<"'", "'", "a", "'", "'">>,
     <<"{", "{", "a", "|", "b", "}", "}">>,
     <<"{", "{", "a">>,
     <<"{", "{", "{", "a", "}", "}", "}">>,
     <<"{", "{", "#", "i", "f", ":", "a", "|", "b", "}", "}">>,
     <<"[", "[", "a", "]", "]">>,
     <<"[", "[", "a">>,
     <<"[", "1", "]">>,
     <<"[", "?", "]">>,
     <<"<", "i", ">", "a", "<", "/", "i", ">">>,
     <<"<", "b", ">", "a">>,
     <<"<", "p", ">">>,
     <<"<", "/", "p", ">">>,
     <<"[", "[", "a", "]">>,
     <<"<", "b", ">", "[", "[", "]">>,
     <<"a", "[", "?", "]", "b">>,
     <<"=", "=", " ", "a", " ", "=", "=", " ", "\n">>,
     <<"a", "\n", "a">> >>

PsInit ==
  /\ ps_phase = "building"
  /\ ps_src = <<>>
  /\ ps_frags = 0
  /\ ps_exc = "none"
  /\ ps_offset = 0
  /\ ps_out = <<>>

\* the caller appends one more fragment to the source
PsAppend(k) ==
  /\ ps_phase = "building"
  /\ ps_frags < MaxFragments
  /\ ps_src' = ps_src \o Fragments[k]
  /\ ps_frags' = ps_frags + 1
  /\ UNCHANGED <<ps_phase, ps_exc, ps_offset, ps_out>>

\* parse ended as p: its exception, where its cursor stands, the nodes it returned
PsReturn(p) ==
  /\ ps_phase' = "parsed"
  /\ ps_exc' = p.exc
  /\ ps_offset' = p.r.offset
  /\ ps_out' = IF p.exc = "none" THEN p.v.xs ELSE <<>>
  /\ UNCHANGED <<ps_src, ps_frags>>

\* parse(ps_src)
PsParse ==
  /\ ps_phase = "building"
  /\ PsReturn(parse(ps_src))

\* parse_text(SourceReader(ps_src)) with the defaults of its signature: it stops at a
\* newline, the end of the input is a failure, nothing is trimmed
PsParseText ==
  /\ ps_phase = "building"
  /\ With(parse_text(NewReader(ps_src), TermChars(<<"\n">>), TRUE, "none"), LAMBDA p :
       /\ ps_exc' = p.exc
       /\ ps_offset' = p.r.offset
       /\ ps_out' = IF p.exc = "none" THEN p.v.xs ELSE <<>>)
  /\ ps_phase' = "text"
  /\ UNCHANGED <<ps_src, ps_frags>>

PsNext ==
  \/ \E k \in DOMAIN Fragments : PsAppend(k) /\ UNCHANGED <<rdVars, ftVars, tcVars, incVars, pgVars>>
  \/ PsParse /\ UNCHANGED <<rdVars, ftVars, tcVars, incVars, pgVars>>
  \/ PsParseText /\ UNCHANGED <<rdVars, ftVars, tcVars, incVars, pgVars>>

ParseInit == PsInit /\ RdIdle /\ FtIdle /\ TcIdle /\ IncIdle /\ PgIdle

ParseSpec == ParseInit /\ [][PsNext]_vars

\* C2: whenever parse(source) returns normally, the cursor it read from is at the end of
\* the input: exactly len(source) characters have been consumed.
C2_ParseConsumesSource ==
  (ps_phase = "parsed" /\ ps_exc = "none") => ps_offset = Len(ps_src)

\* parse returned from a source with a template and an <i> element, whose close tag
\* the HTML sub-parser leaves in the input
C2_Witness ==
  /\ ps_phase = "parsed"
  /\ ps_exc = "none"
  /\ ps_src = Fragments[9] \o Fragments[17]
  /\ ps_offset = Len(ps_src)
  /\ Len(ps_out) = 3


(***************************************************************************)
(* A caller of the inclusion filter: it builds a node list out of trees    *)
(* the parser can produce, calls InclusionTransformer.transform on it, and *)
(* calls it once more on what it got back.                                 *)
(***************************************************************************)
MaxNodes == 2

tX == TextNode(<<"x">>)

\* the trees the caller puts into its list
IncShapes ==
  << TextNode(<<"a">>),
     NoIncludeNode(L(<<tX>>)),
     OnlyIncludeNode(L(<<TextNode(<<"o">>)>>)),
     IncludeOnlyNode(L(<<TextNode(<<"i">>)>>)),
     HeadingNode(L(<<NoIncludeNode(L(<<tX>>)), TextNode(<<"t">>)>>), 1),
     LinkNode(L(<<NoIncludeNode(L(<<tX>>))>>), L(<<TextNode(<<"u">>)>>)),
     HTMLNode(<<"p">>, <<>>, L(<<NoIncludeNode(L(<<tX>>)), TextNode(<<"a">>)>>)),
     ListNode(FALSE, <<ListItemNode(1, L(<<NoIncludeNode(L(<<tX>>))>>))>>),
     TemplateNode(L(<<TextNode(<<"T">>)>>), <<PosArgNode(L(<<NoIncludeNode(L(<<tX>>))>>))>>, <<>>),
     FormatNode("bold", L(<<NoIncludeNode(L(<<tX>>)), TextNode(<<"b">>)>>)),
     FormatNode("bold", L(<<OnlyIncludeNode(L(<<TextNode(<<"p">>)>>))>>)),
     OnlyIncludeNode(L(<<NoIncludeNode(L(<<tX>>)), TextNode(<<"q">>)>>)),
     OnlyIncludeNode(L(<<OnlyIncludeNode(L(<<TextNode(<<"r">>)>>))>>)),
     HeadingNode(L(<<OnlyIncludeNode(L(<<TextNode(<<"h">>)>>))>>), 2),
     NoIncludeNode(L(<<OnlyIncludeNode(L(<<TextNode(<<"n">>)>>))>>)),
     IncludeOnlyNode(L(<<NoIncludeNode(L(<<tX>>))>>)) >>

IncInit ==
  /\ inc_phase = "building"
  /\ inc_in = <<>>
  /\ inc_ref = None
  /\ inc_mem = EmptyMem
  /\ inc_out = None
  /\ inc_again = None

IncAppend(k) ==
  /\ inc_phase = "building"
  /\ Len(inc_in) < MaxNodes
  /\ inc_in' = Append(inc_in, IncShapes[k])
  /\ UNCHANGED <<inc_phase, inc_ref, inc_mem, inc_out, inc_again>>

IncReturn(r) ==
  /\ inc_ref' = r.v
  /\ inc_mem' = r.m
  /\ inc_out' = Deref(r.v, r.m)

IncRun(a) == InclusionTransform(a.v, a.m)

\* transform(ast, {}) on the caller's list
IncFilter ==
  /\ inc_phase = "building"
  /\ IncReturn(IncRun(Alloc(L(inc_in), EmptyMem)))
  /\ inc_phase' = "filtered"
  /\ UNCHANGED <<inc_in, inc_again>>

\* transform(result, {}) on what the first call returned
IncAgain ==
  /\ inc_phase = "filtered"
  /\ With(InclusionTransform(inc_ref, inc_mem), LAMBDA r :
       /\ inc_again' = Deref(r.v, r.m)
       /\ inc_mem' = r.m)
  /\ inc_phase' = "refiltered"
  /\ UNCHANGED <<inc_in, inc_ref, inc_out>>

IncNext ==
  \/ \E k \in DOMAIN IncShapes : IncAppend(k) /\ UNCHANGED <<rdVars, ftVars, tcVars, psVars, pgVars>>
  \/ IncFilter /\ UNCHANGED <<rdVars, ftVars, tcVars, psVars, pgVars>>
  \/ IncAgain /\ UNCHANGED <<rdVars, ftVars, tcVars, psVars, pgVars>>

InclusionInit == IncInit /\ RdIdle /\ FtIdle /\ TcIdle /\ PsIdle /\ PgIdle

InclusionSpec == InclusionInit /\ [][IncNext]_vars

IncFiltered == inc_phase \in {"filtered", "refiltered"}

RECURSIVE OnlyIncludeNodes(_)
RECURSIVE OnlyIncludeNodesIn(_, _)
\* the onlyinclude nodes of a tree, at any depth, in document order
OnlyIncludeNodes(v) ==
  IF v.t = "list" THEN OnlyIncludeNodesIn(v.xs, 1)
  ELSE IF v.t = "node"
    THEN (IF v.name = "onlyinclude" THEN <<v>> ELSE <<>>) \o OnlyIncludeNodes(v.children)
  ELSE <<>>

OnlyIncludeNodesIn(xs, i) ==
  IF i > Len(xs) THEN <<>> ELSE OnlyIncludeNodes(xs[i]) \o OnlyIncludeNodesIn(xs, i + 1)

RECURSIVE ChildrenOfAll(_, _)
\* the children of the nodes, one after the other
ChildrenOfAll(nodes, i) ==
  IF i > Len(nodes) THEN <<>> ELSE nodes[i].children.xs \o ChildrenOfAll(nodes, i + 1)

\* C12: when the list given to the filter has an onlyinclude node at some depth, the
\* filter returns the children of all its onlyinclude nodes, one after the other in
\* document order, and nothing else.
C12_OnlyIncludeBodiesConcatenated ==
  (IncFiltered /\ HasNode(L(inc_in), {"onlyinclude"}))
    => inc_out = L(ChildrenOfAll(OnlyIncludeNodes(L(inc_in)), 1))

RECURSIVE WithoutNoInclude(_)
\* a tree without its noinclude nodes, everything else as it was
WithoutNoInclude(v) ==
  IF v.t = "list"
    THEN With(SelectSeq(v.xs, LAMBDA n : ~(n.t = "node" /\ n.name = "noinclude")), LAMBDA kept :
           L([i \in DOMAIN kept |-> WithoutNoInclude(kept[i])]))
  ELSE IF v.t = "node" THEN N(v.name, WithoutNoInclude(v.children))
  ELSE v

\* C13: when the list given to the filter has no onlyinclude node, the result has no
\* noinclude node at any depth (the child lists of headings, links, HTML elements, list
\* items and template arguments included) and keeps every other node, includeonly nodes
\* included, in its place.
C13_NoIncludeRemovedEverywhere ==
  (IncFiltered /\ ~HasNode(L(inc_in), {"onlyinclude"}))
    => (~HasNode(inc_out, {"noinclude"}) /\ inc_out = WithoutNoInclude(L(inc_in)))

\* C14: for every list, the filter applied to the result of the filter returns a tree
\* equal to the result of the first application.
C14_InclusionIdempotent ==
  inc_phase = "refiltered" => inc_again = inc_out

\* C15: parse_text with no_eof=True ends with EOFError when the input runs out and no
\* terminator was met (here: no newline in the input, and no sub-parser ended the call
\* with a ParserError of its own); with no_eof=False, as parse calls it, it never ends
\* with EOFError, whatever the input.
C15_EofFailsOnlyWhenAsked ==
  /\ (ps_phase = "text" /\ "\n" \notin Range(ps_src) /\ ps_exc # "ParserError")
       => ps_exc = "EOFError"
  /\ ps_phase = "parsed" => ps_exc # "EOFError"

\* sources in which parse_text meets `[[` and parse_link fails: the link has no closing
\* `]]` (ParserError at the single `]`, EOFError at the end of the input)
LinkFails ==
  \E k \in {14, 21} : ps_src \in {Fragments[k], Fragments[1] \o Fragments[k]}

\* C16: when parse_text meets `[[` and parse_link fails, parse_text swallows the failure,
\* takes the opening `[` as plain text and goes on with the rest of the input: the call
\* returns, the whole input read, and its first node is a text with that `[`.
C16_FailedLinkBecomesText ==
  (ps_phase = "parsed" /\ LinkFails)
    => /\ ps_exc = "none"
       /\ ps_offset = Len(ps_src)
       /\ Len(ps_out) >= 1 /\ ps_out[1].name = "text" /\ "[" \in Range(TextOf(ps_out[1]))

\* sources in which parse_text meets `<` and parse_html fails: a <b> element that is
\* never closed (one of the special tags), a close tag on its own (generic HTML)
HtmlFails ==
  \E k \in {18, 20} : ps_src \in {Fragments[k], Fragments[1] \o Fragments[k]}

\* C17: when parse_text meets `<` and parse_html fails, the cursor is back at that `<`,
\* the `<` goes into the running text and parsing goes on with the next character: no
\* character of the input is lost, so the sources above come back as one text node
\* holding the whole source.
C17_FailedHtmlBecomesText ==
  (ps_phase = "parsed" /\ HtmlFails)
    => (ps_exc = "none" /\ ps_offset = Len(ps_src) /\ ps_out = <<TextNode(ps_src)>>)

RECURSIVE Skipless(_)
\* a source without its `[?]` constructs
Skipless(s) ==
  IF s = <<>> THEN <<>>
  ELSE IF Len(s) >= 3 /\ SubSeq(s, 1, 3) = <<"[", "?", "]">> THEN Skipless(SubSeq(s, 4, Len(s)))
  ELSE <<Head(s)>> \o Skipless(Tail(s))

\* sources of plain text and `[?]` constructs
SkipSources ==
  {Fragments[i] : i \in {1, 16, 23}}
    \cup {Fragments[i] \o Fragments[j] : i \in {1, 16, 23}, j \in {1, 16, 23}}

\* C18: parse_text consumes a `[?]` without a node and without text for it (the text
\* before and after it ends up in one text node), and the SkipNode that parse_defref
\* raises for it never leaves parse_text.
C18_SkippedDefRefLeavesNothing ==
  /\ ps_phase \in {"parsed", "text"} => ps_exc # "SkipNode"
  /\ (ps_phase = "parsed" /\ ps_src \in SkipSources)
       => /\ ps_exc = "none"
          /\ ps_offset = Len(ps_src)
          /\ ps_out = Flush(<<>>, Skipless(ps_src))

\* parse returned one text node `ab` for the source `a[?]b`
C18_Witness ==
  /\ ps_phase = "parsed"
  /\ ps_src = Fragments[23]
  /\ ps_exc = "none"
  /\ ps_out = <<TextNode(<<"a", "b">>)>>


(***************************************************************************)
(* Pages (parser.py 13-53): parsepage reads the directives at the start of *)
(* a source, then the rest as text.  The loop of parse_directives is taken *)
(* one iteration per step.                                                 *)
(***************************************************************************)
sToc == <<"_", "_", "t", "o", "c", "_", "_">>
sNoToc == <<"_", "_", "n", "o", "t", "o", "c", "_", "_">>
sRedirect == <<"r", "e", "d", "i", "r", "e", "c", "t">>
sWeiterleitung == <<"w", "e", "i", "t", "e", "r", "l", "e", "i", "t", "u", "n", "g">>

\* `raise RedirectError(link.children[1], reader.file)`
RaiseRedirect(link) == [exc |-> "RedirectError", r |-> link.r, v |-> link.v.children.xs[2]]

\* parse_directive after `#` and blanks: kw is the outcome of consuming the keyword
directive_redirect(kw) ==
  IF ~kw.v THEN Raise("ParserError", kw.r)
  ELSE Then(parse_link(consume_whitespace(kw.r).r), LAMBDA link : RaiseRedirect(link))

directive_keyword(r) ==
  With(Consume(r, sRedirect, FALSE, FALSE), LAMBDA a :
    IF a.v THEN a ELSE Consume(r, sWeiterleitung, FALSE, FALSE))

parse_directive(r) ==
  IF Peeks(r, sToc, FALSE, FALSE).v THEN Ret(r, N("toc", L(<<>>)))
  ELSE IF Peeks(r, sNoToc, FALSE, FALSE).v THEN Ret(r, N("notoc", L(<<>>)))
  ELSE Then(Next_(r, 1), LAMBDA c :
         IF c.v # <<"#">> THEN Raise("ParserError", c.r)
         ELSE directive_redirect(directive_keyword(consume_whitespace(c.r).r)))

\* one iteration of the loop of parse_directives on the cursor reader: the outcome of
\* parse_directive on a copy of the cursor that has passed the blank lines
directive_attempt(reader) == parse_directive(consume_blanklines(reader).r)

\* `reader.skip(len(reader) - len(readercopy))`
directive_skip(reader, readercopy) == Skip(reader, RLen(reader) - RLen(readercopy)).r

MaxPageFragments == 2   \* fragments in one page source
MaxDirectives == 3      \* entries of the list directives that are kept track of

PageFragments ==
  << <<"a">>, <<"\n">>, <<" ">>,
     sToc,
     <<"_", "_", "N", "o", "T", "o", "c", "_", "_">>,
     <<"#", "r", "e", "d", "i", "r", "e", "c", "t", " ", "[", "[", "a", "]", "]">>,
     <<"#", "W", "e", "i", "t", "e", "r", "l", "e", "i", "t", "u", "n", "g", "[", "[", "a", "|", "b", "]", "]">>,
     <<"#", "x">>,
     <<"#", "R", "E", "D", "I", "R", "E", "C", "T", "[", "[", "a">>,
     <<"#">>,
     sToc \o <<"\n">> >>

PgInit ==
  /\ pg_phase = "building"
  /\ pg_src = <<>>
  /\ pg_frags = 0
  /\ pg_reader = NewReader(<<>>)
  /\ pg_dirs = <<>>
  /\ pg_exc = "none"
  /\ pg_url = <<>>
  /\ pg_out = <<>>

\* the caller appends one more fragment to the source
PgAppend(k) ==
  /\ pg_phase = "building"
  /\ pg_frags < MaxPageFragments
  /\ pg_src' = pg_src \o PageFragments[k]
  /\ pg_frags' = pg_frags + 1
  /\ UNCHANGED <<pg_phase, pg_reader, pg_dirs, pg_exc, pg_url, pg_out>>

\* parsepage(pg_src) up to the loop of parse_directives: the reader, `directives = []`
PgStart ==
  /\ pg_phase = "building"
  /\ pg_reader' = NewReader(pg_src)
  /\ pg_phase' = "directives"
  /\ UNCHANGED <<pg_src, pg_frags, pg_dirs, pg_exc, pg_url, pg_out>>

\* directives.append(...); reader.skip(...): the loop goes on
PgDirectiveRead(d) ==
  /\ pg_dirs' = IF Len(pg_dirs) < MaxDirectives THEN Append(pg_dirs, d.v) ELSE pg_dirs
  /\ pg_reader' = directive_skip(pg_reader, d.r)
  /\ UNCHANGED <<pg_phase, pg_exc, pg_url, pg_out>>

\* `except ParserError: break`, `return directives`
PgDirectiveBreak ==
  /\ pg_phase' = "body"
  /\ UNCHANGED <<pg_reader, pg_dirs, pg_exc, pg_url, pg_out>>

\* any other exception leaves parse_directives and parsepage
PgDirectiveRaise(d) ==
  /\ pg_phase' = "raised"
  /\ pg_exc' = d.exc
  /\ pg_url' = IF d.exc = "RedirectError" THEN d.v ELSE <<>>
  /\ UNCHANGED <<pg_reader, pg_dirs, pg_out>>

\* one iteration of `while True` in parse_directives
PgDirective ==
  /\ pg_phase = "directives"
  /\ With(directive_attempt(pg_reader), LAMBDA d :
       IF d.exc = "none" THEN PgDirectiveRead(d)
       ELSE IF d.exc = "ParserError" THEN PgDirectiveBreak
       ELSE PgDirectiveRaise(d))
  /\ UNCHANGED <<pg_src, pg_frags>>

\* `ast = parse_text(reader, terminators=terminator, no_eof=False, strip='both')` and the return
PgBody ==
  /\ pg_phase = "body"
  /\ With(parse_text(pg_reader, TermEof, FALSE, "both"), LAMBDA p :
       /\ pg_reader' = p.r
       /\ pg_exc' = p.exc
       /\ pg_out' = IF p.exc = "none" THEN p.v.xs ELSE <<>>
       /\ pg_phase' = IF p.exc = "none" THEN "returned" ELSE "raised")
  /\ UNCHANGED <<pg_src, pg_frags, pg_dirs, pg_url>>

PgNext ==
  \/ \E k \in DOMAIN PageFragments : PgAppend(k) /\ UNCHANGED <<rdVars, ftVars, tcVars, psVars, incVars>>
  \/ PgStart /\ UNCHANGED <<rdVars, ftVars, tcVars, psVars, incVars>>
  \/ PgDirective /\ UNCHANGED <<rdVars, ftVars, tcVars, psVars, incVars>>
  \/ PgBody /\ UNCHANGED <<rdVars, ftVars, tcVars, psVars, incVars>>

PageInit == PgInit /\ RdIdle /\ FtIdle /\ TcIdle /\ PsIdle /\ IncIdle

PageSpec == PageInit /\ [][PgNext]_vars

\* the text ends with a directive marker, in any letter case
EndsWithMarker(s) ==
  \/ (Len(s) >= Len(sToc) /\ Lower(SubSeq(s, Len(s) - Len(sToc) + 1, Len(s))) = sToc)
  \/ (Len(s) >= Len(sNoToc) /\ Lower(SubSeq(s, Len(s) - Len(sNoToc) + 1, Len(s))) = sNoToc)

RECURSIVE CountMarkers(_)
\* how many directive markers a text holds
CountMarkers(s) ==
  IF s = <<>> THEN 0
  ELSE (IF EndsWithMarker(s) THEN 1 ELSE 0) + CountMarkers(SubSeq(s, 1, Len(s) - 1))

\* the loop has read no more directives than the source holds: with a cursor that moves
\* forward at every directive, the loop ends after at most that many iterations
DirectivesBounded == Len(pg_dirs) <= CountMarkers(pg_src)

\* an iteration that read a directive added one marker node and moved the cursor
\* behind that directive
DirectiveAdvances ==
  (pg_phase = "directives" /\ pg_phase' = "directives" /\ pg_dirs' # pg_dirs)
    => /\ Len(pg_dirs') = Len(pg_dirs) + 1
       /\ pg_dirs'[Len(pg_dirs')].name \in {"toc", "notoc"}
       /\ pg_reader'.offset > pg_reader.offset
       /\ EndsWithMarker(SubSeq(pg_src, pg_reader.offset + 1, pg_reader'.offset))

\* after the loop the cursor is just behind the last directive read
CursorBehindLastDirective ==
  pg_phase = "body" =>
    IF pg_dirs = <<>> THEN pg_reader.offset = 0
    ELSE EndsWithMarker(SubSeq(pg_src, 1, pg_reader.offset))

\* C19: parse_directives terminates on every input: every directive it reads (__toc__ or
\* __notoc__ in any letter case) moves the cursor behind that directive and adds one
\* marker node, so the loop reads no more directives than the source holds; it stops
\* where parse_directive fails, and the cursor is then just behind the last directive read.
C19_DirectivesTerminate ==
  /\ [][DirectiveAdvances]_vars
  /\ []DirectivesBounded
  /\ []CursorBehindLastDirective

\* sources whose first directive is a redirect line: blanks before it or any fragment
\* after it
RedirectFirst ==
  \E k \in {6, 7} :
    \/ pg_src = PageFragments[k]
    \/ \E j \in {2, 3} : pg_src = PageFragments[j] \o PageFragments[k]
    \/ \E j \in DOMAIN PageFragments : pg_src = PageFragments[k] \o PageFragments[j]

\* sources with a redirect line in the leading block: first, or after a __toc__ line
RedirectInLeadingBlock ==
  RedirectFirst \/ \E k \in {6, 7} : pg_src = PageFragments[11] \o PageFragments[k]

\* the call is on its way to the redirect or has ended with it: nothing returned, no
\* more directives read than the source holds, and the outcome is the RedirectError
\* with the url part of the link
EndsWithRedirect ==
  /\ pg_phase \notin {"body", "returned"}
  /\ pg_phase = "directives" => Len(pg_dirs) <= CountMarkers(pg_src)
  /\ pg_phase = "raised" => (pg_exc = "RedirectError" /\ pg_url = L(<<TextNode(<<"a">>)>>))

\* C20: parsepage on a source whose leading block has a line with `#`, optional blanks,
\* redirect or weiterleitung in any letter case, optional blanks and a link ends with a
\* RedirectError that carries the target of the link; the directive loop does not
\* swallow it and no (directives, body) pair is returned.
C20_RedirectLeavesParsePage ==
  RedirectInLeadingBlock => EndsWithRedirect

\* heading(["a"], level)
HeadingA(level) == HeadingNode(L(<<TextNode(<<"a">>)>>), level)

\* what parse has to return for the sources that are well-formed headings: `=a=` with
\* or without a newline behind it, `== a == ` with blanks around the title and behind
\* the closing signs, and the two one after the other
ExpectedHeadings(src) ==
  IF src = Fragments[6] \/ src = Fragments[6] \o Fragments[3] THEN <<HeadingA(1)>>
  ELSE IF src = Fragments[24] THEN <<HeadingA(2)>>
  ELSE <<HeadingA(2), HeadingA(1)>>

HeadingSources ==
  {Fragments[6], Fragments[6] \o Fragments[3], Fragments[24], Fragments[24] \o Fragments[6]}

\* C21: a well-formed heading at line start (k `=`, a title, k `=`, optional blanks) is
\* parsed into heading(title, k) with the title trimmed, followed by a newline or at the
\* end of the input; two headings on two lines, the second without a newline behind it,
\* give the two heading nodes.
C21_HeadingsParsed ==
  (ps_phase = "parsed" /\ ps_src \in HeadingSources)
    => (ps_exc = "none" /\ ps_out = ExpectedHeadings(ps_src))

(***************************************************************************)
(* Templates with several arguments (parser.py parse_template,             *)
(* parse_template_args, parse_template_arg).  The caller writes `{{a`,     *)
(* then up to MaxArgs arguments, each behind a `|`, closes the template    *)
(* and parses it.                                                          *)
(***************************************************************************)
MaxArgs == 3

sTplOpen == <<"{", "{", "a">>
sTplClose == <<"}", "}">>

TplArgs ==
  << <<"b">>,
     <<" ", "c", " ">>,
     <<"k", "=", "v">>,
     <<" ", "k", " ", "=", " ", "v", " ">>,
     <<"k", "=", "v", "=", "w">>,
     <<"=", "v">>,
     <<"k", "=">>,
     <<>> >>

TaInit ==
  /\ ps_phase = "args"
  /\ ps_src = sTplOpen
  /\ ps_frags = 0
  /\ ps_exc = "none"
  /\ ps_offset = 0
  /\ ps_out = <<>>

\* the caller writes one more argument
TaAppend(k) ==
  /\ ps_phase = "args"
  /\ ps_frags < MaxArgs
  /\ ps_src' = ps_src \o <<"|">> \o TplArgs[k]
  /\ ps_frags' = ps_frags + 1
  /\ UNCHANGED <<ps_phase, ps_exc, ps_offset, ps_out>>

\* the caller closes the template and calls parse
TaParse ==
  /\ ps_phase = "args"
  /\ ps_src' = ps_src \o sTplClose
  /\ With(parse(ps_src \o sTplClose), LAMBDA p :
       /\ ps_exc' = p.exc
       /\ ps_offset' = p.r.offset
       /\ ps_out' = IF p.exc = "none" THEN p.v.xs ELSE <<>>)
  /\ ps_phase' = "template"
  /\ UNCHANGED ps_frags

TaNext ==
  \/ \E k \in DOMAIN TplArgs : TaAppend(k) /\ UNCHANGED <<rdVars, ftVars, tcVars, incVars, pgVars>>
  \/ TaParse /\ UNCHANGED <<rdVars, ftVars, tcVars, incVars, pgVars>>

TemplateInit == TaInit /\ RdIdle /\ FtIdle /\ TcIdle /\ IncIdle /\ PgIdle

TemplateSpec == TemplateInit /\ [][TaNext]_vars

\* the arguments of a written template, as the text between its pipes
RECURSIVE SplitPipes(_, _, _)
SplitPipes(s, cur, acc) ==
  IF s = <<>> THEN Append(acc, cur)
  ELSE IF Head(s) = "|" THEN SplitPipes(Tail(s), <<>>, Append(acc, cur))
  ELSE SplitPipes(Tail(s), Append(cur, Head(s)), acc)

WrittenArgs(src) ==
  IF Len(src) <= Len(sTplOpen) + Len(sTplClose) THEN <<>>
  ELSE SplitPipes(SubSeq(src, Len(sTplOpen) + 2, Len(src) - Len(sTplClose)), <<>>, <<>>)

HasEquals(arg) == "=" \in Range(arg)

FirstEquals(arg) == CHOOSE i \in 1..Len(arg) : arg[i] = "=" /\ \A j \in 1..(i - 1) : arg[j] # "="

TrimmedText(s) == IF Strip(s) = <<>> THEN L(<<>>) ELSE L(<<TextNode(Strip(s))>>)

ExpectedArg(arg) ==
  IF HasEquals(arg)
    THEN NamedArgNode(TrimmedText(SubSeq(arg, 1, FirstEquals(arg) - 1)),
                      TrimmedText(SubSeq(arg, FirstEquals(arg) + 1, Len(arg))))
    ELSE PosArgNode(TrimmedText(arg))

ExpectedArgs(src) == [i \in DOMAIN WrittenArgs(src) |-> ExpectedArg(WrittenArgs(src)[i])]

IsNamedArg(n) == n.name = "namedarg"
IsPosArg(n) == n.name = "posarg"

ExpectedTemplate(src) ==
  TemplateNode(L(<<TextNode(<<"a">>)>>),
               SelectSeq(ExpectedArgs(src), IsPosArg),
               SelectSeq(ExpectedArgs(src), IsNamedArg))

MaxIdExprs == 2

IdExprs ==
  << <<"1">>,
     <<"2">>,
     <<"1", "2">>,
     <<"1", "a">>,
     <<"2", "b">>,
     <<"1", "-", "3">>,
     <<"9", "-", "1", "1">>,
     <<"1", "A">>,
     <<" ", "3">>,
     <<"2", "-", "1">> >>

DrInit ==
  /\ ps_phase = "ids"
  /\ ps_src = <<"[">>
  /\ ps_frags = 0
  /\ ps_exc = "none"
  /\ ps_offset = 0
  /\ ps_out = <<>>

\* the caller writes one more id expression, behind a comma unless it is the first
DrAppend(k) ==
  /\ ps_phase = "ids"
  /\ ps_frags < MaxIdExprs
  /\ ps_src' = ps_src \o (IF ps_frags = 0 THEN <<>> ELSE <<",">>) \o IdExprs[k]
  /\ ps_frags' = ps_frags + 1
  /\ UNCHANGED <<ps_phase, ps_exc, ps_offset, ps_out>>

\* the caller closes the bracket and calls parse_defref(SourceReader(...))
DrParse ==
  /\ ps_phase = "ids"
  /\ ps_frags > 0
  /\ ps_src' = Append(ps_src, "]")
  /\ With(parse_defref(NewReader(Append(ps_src, "]"))), LAMBDA p :
       /\ ps_exc' = p.exc
       /\ ps_offset' = p.r.offset
       /\ ps_out' = IF p.exc = "none" THEN <<p.v>> ELSE <<>>)
  /\ ps_phase' = "defref"
  /\ UNCHANGED ps_frags

DrNext ==
  \/ \E k \in DOMAIN IdExprs : DrAppend(k) /\ UNCHANGED <<rdVars, ftVars, tcVars, incVars, pgVars>>
  \/ DrParse /\ UNCHANGED <<rdVars, ftVars, tcVars, incVars, pgVars>>

DefRefInit == DrInit /\ RdIdle /\ FtIdle /\ TcIdle /\ IncIdle /\ PgIdle

DefRefSpec == DefRefInit /\ [][DrNext]_vars

\* the ids of the parsed defref, as strings
DefIds == [i \in DOMAIN ps_out[1].children.xs[1].xs |-> ps_out[1].children.xs[1].xs[i].s]

\* the decimal value of a string of digits
RECURSIVE DecValue(_)
DecValue(s) ==
  IF s = <<>> THEN 0 ELSE DecValue(SubSeq(s, 1, Len(s) - 1)) * 10 + DigitValue(s[Len(s)])

RECURSIVE DigitPrefix(_)
DigitPrefix(s) ==
  IF s # <<>> /\ IsDigit(Head(s)) THEN <<Head(s)>> \o DigitPrefix(Tail(s)) ELSE <<>>

IdNumber(id) == DecValue(DigitPrefix(id))
IdLetter(id) == SubSeq(id, Len(DigitPrefix(id)) + 1, Len(id))

\* ascending by numeric prefix, then by letter
IdBefore(a, b) ==
  \/ IdNumber(a) < IdNumber(b)
  \/ IdNumber(a) = IdNumber(b) /\ StrLess(IdLetter(a), IdLetter(b))

IdsAscending(ids) == \A i, j \in DOMAIN ids : i < j => IdBefore(ids[i], ids[j])

IdsDistinct(ids) == \A i, j \in DOMAIN ids : i # j => ids[i] # ids[j]

\* the id expressions of a written defref, as the text between its commas
RECURSIVE SplitCommas(_, _, _)
SplitCommas(s, cur, acc) ==
  IF s = <<>> THEN Append(acc, cur)
  ELSE IF Head(s) = "," THEN SplitCommas(Tail(s), <<>>, Append(acc, cur))
  ELSE SplitCommas(Tail(s), Append(cur, Head(s)), acc)

WrittenIdExprs(src) == SplitCommas(SubSeq(src, 2, Len(src) - 1), <<>>, <<>>)

RECURSIVE JoinCommas(_)
JoinCommas(es) ==
  IF es = <<>> THEN <<>>
  ELSE IF Len(es) = 1 THEN es[1]
  ELSE es[1] \o <<",">> \o JoinCommas(Tail(es))

Orders(n) == {p \in [1..n -> 1..n] : \A i, j \in 1..n : p[i] = p[j] => i = j}

\* the same defref with its id expressions in the order p
Permuted(src, p) ==
  <<"[">> \o JoinCommas([i \in DOMAIN p |-> WrittenIdExprs(src)[p[i]]]) \o <<"]">>

SameForEveryOrder(src, out) ==
  \A p \in Orders(Len(WrittenIdExprs(src))) :
    /\ parse_defref(NewReader(Permuted(src, p))).exc = "none"
    /\ <<parse_defref(NewReader(Permuted(src, p))).v>> = out

\* C23 (parts that hold): the ids of a parsed defref are distinct, and the list is the
\* same for every order of the same id expressions.
DefIdsDistinctAndOrderFree ==
  (ps_phase = "defref" /\ ps_exc = "none")
    => (IdsDistinct(DefIds) /\ SameForEveryOrder(ps_src, ps_out))

\* C23: for every defref that parses, the ids list has no duplicates, is sorted
\* ascending by numeric prefix and then by letter, and is the same list for every
\* permutation of the same comma-separated id expressions.
C23_DefRefIdsSorted ==
  (ps_phase = "defref" /\ ps_exc = "none")
    => (IdsDistinct(DefIds) /\ IdsAscending(DefIds) /\ SameForEveryOrder(ps_src, ps_out))

\* the last position of a dash in an id expression, 0 when it has none
DashAt(e) == IF "-" \in Range(e) THEN CHOOSE i \in DOMAIN e : e[i] = "-" ELSE 0

IsNumber(s) == s # <<>> /\ \A i \in DOMAIN s : IsDigit(s[i])

\* the id expressions the documentation describes: n, n<lowercase letter>, n-m
IsRangeExpr(e) ==
  DashAt(e) > 0 /\ IsNumber(SubSeq(e, 1, DashAt(e) - 1)) /\ IsNumber(SubSeq(e, DashAt(e) + 1, Len(e)))
IsLetterExpr(e) ==
  Len(e) > 1 /\ e[Len(e)] \in Range(LowerChars) /\ IsNumber(SubSeq(e, 1, Len(e) - 1))

\* the ids such an expression stands for, with its numbers read as decimal numbers
DescribedIds(e) ==
  IF IsNumber(e) THEN {IntToStr(DecValue(e))}
  ELSE IF IsLetterExpr(e)
    THEN {Append(IntToStr(DecValue(SubSeq(e, 1, Len(e) - 1))), e[Len(e)])}
  ELSE {IntToStr(n) : n \in DecValue(SubSeq(e, 1, DashAt(e) - 1))
                              .. DecValue(SubSeq(e, DashAt(e) + 1, Len(e)))}

IsDescribedExpr(e) == IsNumber(e) \/ IsLetterExpr(e) \/ IsRangeExpr(e)

\* <int>, <int><lowercase letter> or *
IsIdForm(id) ==
  \/ id = <<"*">>
  \/ IsNumber(id)
  \/ IsLetterExpr(id)

\* C24 restricted to numbers of one digit: each described expression yields its ids
OneDigitIdsAsDescribed ==
  (/\ ps_phase = "defref"
   /\ ps_frags = 1
   /\ IsDescribedExpr(Strip(WrittenIdExprs(ps_src)[1]))
   /\ \A i \in DOMAIN ps_src : IsDigit(ps_src[i]) => (i = 1 \/ ~IsDigit(ps_src[i - 1])))
    => (ps_exc = "none" /\ Range(DefIds) = DescribedIds(Strip(WrittenIdExprs(ps_src)[1])))

\* C24: in a defref, `n` yields the decimal string of n, `n<letter>` with a lowercase
\* letter yields n followed by that letter, `n-m` yields the ids of all integers from n
\* to m inclusive, for numbers written with any number of digits; and no expression
\* yields an id outside the forms <int>, <int><lowercase letter> and *.
C24_IdExpressions ==
  /\ (ps_phase = "defref" /\ ps_frags = 1 /\ IsDescribedExpr(Strip(WrittenIdExprs(ps_src)[1])))
       => (ps_exc = "none" /\ Range(DefIds) = DescribedIds(Strip(WrittenIdExprs(ps_src)[1])))
  /\ (ps_phase = "defref" /\ ps_exc = "none") => \A i \in DOMAIN DefIds : IsIdForm(DefIds[i])

\* the second half of C24 alone: every id has one of the three forms
C24_IdForms ==
  (ps_phase = "defref" /\ ps_exc = "none") => \A i \in DOMAIN DefIds : IsIdForm(DefIds[i])

\* the first half of C24 alone
C24_IdsAsDescribed ==
  (ps_phase = "defref" /\ ps_frags = 1 /\ IsDescribedExpr(Strip(WrittenIdExprs(ps_src)[1])))
    => (ps_exc = "none" /\ Range(DefIds) = DescribedIds(Strip(WrittenIdExprs(ps_src)[1])))

\* the sources of the parse machine without any WikiText metacharacter: the letter a,
\* spaces and newlines
IsPlainSource(src) == \A i \in DOMAIN src : src[i] \in {"a", " ", "\n"}

\* HTMLRenderer().render(parse(src)) for the result the parse machine holds
RenderedBack == Render(L(ps_out), EmptyMem, "html")

\* C25 restricted to one-line sources without leading or trailing spaces
PlainTrimmedLineRoundTrips ==
  (ps_phase = "parsed" /\ IsPlainSource(ps_src) /\ "\n" \notin Range(ps_src)
     /\ Strip(ps_src) = ps_src)
    => (ps_exc = "none" /\ RenderedBack = ROk(ps_src))

\* C25: for every string s without a WikiText metacharacter (also with leading or
\* trailing spaces, also with several lines), rendering parse(s) with the HTML
\* renderer returns exactly s.
C25_PlainTextRoundTrips ==
  (ps_phase = "parsed" /\ IsPlainSource(ps_src))
    => (ps_exc = "none" /\ RenderedBack = ROk(ps_src))

\* C25 for sources of one line: only the trimming is in the way
C25_OneLineRoundTrips ==
  (ps_phase = "parsed" /\ IsPlainSource(ps_src) /\ "\n" \notin Range(ps_src))
    => (ps_exc = "none" /\ RenderedBack = ROk(ps_src))

\* C25 for sources without leading or trailing whitespace: only the newline is in the way
C25_TrimmedRoundTrips ==
  (ps_phase = "parsed" /\ IsPlainSource(ps_src) /\ Strip(ps_src) = ps_src)
    => (ps_exc = "none" /\ RenderedBack = ROk(ps_src))

(***************************************************************************)
(* The cursor machine with one more operation: the body of a scope reads   *)
(* from the parent cursor too, which nothing in source_reader.py prevents  *)
(* (the parent is an ordinary SourceReader while its scope is open).  The   *)
(* body moves its cursors with next and skip.                              *)
(***************************************************************************)
\* reader.next() on the parent of the innermost scope, inside the with block
RdParentNext ==
  /\ Top > 1
  /\ RdApply(rd_stack[Top].parent, Next_(rd_stack[rd_stack[Top].parent].cur, 1))

ScopeNextStep ==
  \/ RdNext /\ UNCHANGED <<ftVars, tcVars, psVars, incVars, pgVars>>
  \/ RdSkip /\ UNCHANGED <<ftVars, tcVars, psVars, incVars, pgVars>>
  \/ RdRevert /\ UNCHANGED <<ftVars, tcVars, psVars, incVars, pgVars>>
  \/ RdEnter /\ UNCHANGED <<ftVars, tcVars, psVars, incVars, pgVars>>
  \/ RdExitNormal /\ UNCHANGED <<ftVars, tcVars, psVars, incVars, pgVars>>
  \/ RdExitFail /\ UNCHANGED <<ftVars, tcVars, psVars, incVars, pgVars>>
  \/ RdParentNext /\ UNCHANGED <<ftVars, tcVars, psVars, incVars, pgVars>>

ScopeInit == RdInit /\ FtIdle /\ TcIdle /\ PsIdle /\ IncIdle /\ PgIdle

ScopeSpec == ScopeInit /\ [][ScopeNextStep]_vars

\* this step leaves the innermost scope with a body that ended normally
LeavesNormally ==
  /\ Len(rd_stack') = Len(rd_stack) - 1
  /\ rd_last'.kind # "fail"

\* the parent of the innermost scope is not where it was when the scope was entered
ParentMoved == rd_stack[rd_stack[Top].parent].cur.offset # rd_stack[Top].entry_pos.offset

\* leaving raised StateError and left the parent where it stood
RaisesStateError ==
  /\ rd_last'.kind = "state_error"
  /\ rd_last'.exc = "StateError"
  /\ Pos(rd_stack'[rd_stack[Top].parent].cur) = Pos(rd_stack[rd_stack[Top].parent].cur)

\* C26: if the offset of the parent cursor changed between entry and exit of a
\* speculative scope, leaving the scope (its body having ended normally) raises
\* StateError instead of committing the child's position, whether the child advanced
\* or called revert().
C26_ParentMovedRaisesStateError ==
  [][(Top > 1 /\ LeavesNormally /\ ParentMoved) => RaisesStateError]_vars

\* a scope whose parent advanced was left after revert() and raised StateError
C26_Witness ==
  /\ rd_last.kind = "state_error"
  /\ rd_last.exc = "StateError"
  /\ rd_last.reverted
  /\ rd_last.after.offset > rd_last.entry.offset

\* the characters a cursor has consumed
Consumed(r) == SubSeq(r.source, 1, r.offset)

\* the offset behind the last newline consumed, 0 when there is none
LastNewline(r) ==
  IF \E i \in 1..r.offset : r.source[i] = "\n"
    THEN CHOOSE i \in 1..r.offset : r.source[i] = "\n" /\ \A j \in (i + 1)..r.offset : r.source[j] # "\n"
    ELSE 0

PositionConsistent(r) ==
  /\ 0 <= r.offset
  /\ r.offset <= Len(r.source)
  /\ r.line = 1 + Cardinality({i \in 1..r.offset : r.source[i] = "\n"})
  /\ r.column = r.offset - LastNewline(r)
  /\ r.is_line_start <=> \A i \in (LastNewline(r) + 1)..r.offset : IsSpace(r.source[i])

\* C27: after any sequence of next, skip, consume, consume_until and speculative-scope
\* commits on a cursor, 0 <= offset <= len(source), line is 1 plus the number of
\* newlines consumed, column is the number of characters consumed since the last
\* consumed newline (or the start), and is_line_start is true exactly when every
\* character consumed since then is whitespace.
C27_PositionConsistent ==
  \A i \in DOMAIN rd_stack : PositionConsistent(rd_stack[i].cur)

\* a scope has committed onto the root cursor, which has consumed a newline and a letter
C27_Witness ==
  /\ rd_last.kind = "commit"
  /\ Len(rd_stack) = 1
  /\ rd_stack[1].cur.source = <<"\n", "a">>
  /\ rd_stack[1].cur.offset = 2
  /\ rd_stack[1].cur.line = 2
  /\ rd_stack[1].cur.column = 1
  /\ ~rd_stack[1].cur.is_line_start

\* sources that begin with the generic open tag <p> and hold no </p>
UnclosedTagSources == {Fragments[19], Fragments[19] \o Fragments[1], Fragments[19] \o Fragments[2]}

\* parse_html on a reader of the source the parse machine holds
HtmlProduction == parse_html(NewReader(ps_src))

\* what parse returns for the input behind the open tag
FollowingContent == parse(SubSeq(ps_src, Len(Fragments[19]) + 1, Len(ps_src))).v.xs

\* C28: for a generic HTML open tag whose close tag does not occur in the remaining
\* input, the HTML production succeeds and returns html(tag, attrs, []) with the cursor
\* just after the open tag, so the input behind the open tag is parsed as sibling
\* content and not as children.
C28_UnclosedTagHasNoChildren ==
  (ps_phase = "parsed" /\ ps_src \in UnclosedTagSources)
    => /\ HtmlProduction.exc = "none"
       /\ HtmlProduction.v = HTMLNode(<<"p">>, <<>>, L(<<>>))
       /\ HtmlProduction.r.offset = Len(Fragments[19])
       /\ ps_exc = "none"
       /\ ps_out = <<HTMLNode(<<"p">>, <<>>, L(<<>>))>> \o FollowingContent

\* what the code does instead: the production ends with EOFError, its scope puts the
\* cursor back, and parse returns the whole source as text
UnclosedTagRaisesEof ==
  (ps_phase = "parsed" /\ ps_src \in UnclosedTagSources)
    => /\ HtmlProduction.exc = "EOFError"
       /\ HtmlProduction.r.offset = 0
       /\ ps_exc = "none"
       /\ ps_out = <<TextNode(Strip(ps_src))>>

\* the tree the template fetcher holds for a name, as it is now
CachedTree(n) == Deref(tc_mem.store[n], tc_mem)

\* C29: transcluding does not modify the tree returned by the template fetcher: after
\* the expansions of a transform, the tree the fetcher holds for a template equals what
\* parsing the template's source returns.
C29_FetchedTreeNotModified ==
  (Returned /\ tc_shared)
    => \A n \in DOMAIN tc_mem.store : CachedTree(n) = TemplatePages[n]

\* C29 for templates whose bodies hold no node with children of its own below the top
\* level (text, the two-text page, the empty page): nothing is written into their trees
FlatPages == {sFoo, sEmpty, sTwo}

FlatTemplatesNotModified ==
  (Returned /\ tc_shared)
    => \A n \in DOMAIN tc_mem.store \cap FlatPages : CachedTree(n) = TemplatePages[n]

\* this step is the call fetch_template(n) of task t, the name n being in the cache
CachedCall(t, n) ==
  /\ Cached(n)
  /\ tasks[t].pc \in {"idle", "done"}
  /\ tasks'[t].name = n
  /\ failures' # failures \/ fetches' # fetches \/ tasks' # tasks

\* C30 (the part that holds): a call for a cached name makes no remote request and
\* leaves the cache as it is
CachedCallIssuesNoRequest ==
  [][\A t \in DOMAIN tasks, n \in TemplateNames :
       (CachedCall(t, n) /\ tasks'[t] # tasks[t]) => (fetches' = fetches /\ templates' = templates)]_vars

\* C30: fetch_template for a name that is already in the template cache returns the
\* cached page and issues no remote request.
C30_CachedCallReturnsPage ==
  [][\A t \in DOMAIN tasks, n \in TemplateNames :
       (CachedCall(t, n) /\ tasks'[t] # tasks[t])
         => (tasks'[t].pc = "done" /\ tasks'[t].result = "page" /\ fetches' = fetches)]_vars

=============================================================================
